---- MODULE Spec2Model ----
(***************************************************************************)
(* Model of the catalog reconciliation code of Kemalyavas/Scraping:        *)
(*   - ProductMatcher (Hose_Scraping/scripts/product_matcher.py),          *)
(*   - the fitting matchers match_pressarmaturen_WITH_SERIES.py and        *)
(*     match_pressarmaturen_IMPROVED.py,                                   *)
(*   - the dash-code size repair of fix_balflex_hose_sizes.py,             *)
(*   - the extraction pipeline of Hose_Scraping/main.py,                   *)
(*   - the record extractors BalflexParser, BalflexPDFParser,              *)
(*     BalflexFittingsParser and HeizmannScraper,                          *)
(*   - FittingsMatcher (scripts/match_fittings.py),                        *)
(*   - the enrichment steps add_angle_information.py,                      *)
(*     add_series_from_lookup.py, process_balflex_standards_IMPROVED.py.   *)
(*                                                                         *)
(* Python strings are sequences of one-character strings, so that          *)
(* substring tests, regular-expression searches and case conversions are   *)
(* computed character by character.  Python dicts are records that carry   *)
(* the set of keys that are present in the field "keys"; a field whose key *)
(* is not in "keys" holds a filler that the model never reads.             *)
(* Numbers with decimals are fixed-point integers in hundredths            *)
(* (25.0 MPa is 2500, 250 bar is 25000, 15.9 mm is 1590).                  *)
(***************************************************************************)
EXTENDS Integers, Sequences, FiniteSets, TLC

VARIABLES
    script,             \* which program of the repository is running
    balflex_products,   \* ProductMatcher.balflex_products
    heizmann_products,  \* ProductMatcher.heizmann_products
    matches,            \* ProductMatcher.matches
    returned,           \* values returned by the match_products calls so far
    scored,             \* last (balflex index, heizmann index, result) of _calculate_match_score
    heizmann_data,      \* fitting matcher: source list
    balflex_data,       \* fitting matcher: target list
    min_threshold,      \* fitting matcher: min_threshold argument
    fit_out,            \* fitting matcher: result of the last match_products call
    fit_scored,         \* fitting scorers: last scored pair and both variants' results
    product,            \* fix_balflex_hose_sizes: the product being fixed
    fixed,              \* fix_balflex_hose_sizes: result of fix_hose_size_from_dash
    main_pc,            \* Hose_Scraping/main.py: the step main() is at
    main_log,           \* Hose_Scraping/main.py: the steps begun so far and how each ended
    extract_from,       \* record extractors: the table, page or row being parsed
    extracted,          \* record extractors: what the parse added to self.products
    balflex_fittings,   \* FittingsMatcher.balflex_fittings
    heizmann_fittings,  \* FittingsMatcher.heizmann_fittings
    fittings_out,       \* FittingsMatcher: self.matches after match()
    enrich_in,          \* enrichment scripts: the product the loop is at
    enriched            \* enrichment scripts: the product after the loop body

vars == <<script, balflex_products, heizmann_products, matches, returned, scored,
          heizmann_data, balflex_data, min_threshold, fit_out, fit_scored,
          product, fixed, main_pc, main_log, extract_from, extracted,
          balflex_fittings, heizmann_fittings, fittings_out, enrich_in, enriched>>

hoseVars == <<balflex_products, heizmann_products, matches, returned, scored>>
fitVars  == <<heizmann_data, balflex_data, min_threshold, fit_out, fit_scored>>
dashVars == <<product, fixed>>
mainVars == <<main_pc, main_log>>
extractVars == <<extract_from, extracted>>
fittingsVars == <<balflex_fittings, heizmann_fittings, fittings_out>>
enrichVars == <<enrich_in, enriched>>

\* the variables that the actions of one program leave alone
exceptHose == <<fitVars, dashVars, mainVars, extractVars, fittingsVars, enrichVars>>
exceptFit  == <<hoseVars, dashVars, mainVars, extractVars, fittingsVars, enrichVars>>
exceptDash == <<hoseVars, fitVars, mainVars, extractVars, fittingsVars, enrichVars>>
exceptMain == <<hoseVars, fitVars, dashVars, extractVars, fittingsVars, enrichVars>>
exceptExtract == <<hoseVars, fitVars, dashVars, mainVars, fittingsVars, enrichVars>>
exceptFittings == <<hoseVars, fitVars, dashVars, mainVars, extractVars, enrichVars>>
exceptEnrich == <<hoseVars, fitVars, dashVars, mainVars, extractVars, fittingsVars>>

-----------------------------------------------------------------------------
(* Bounds of the model *)

MaxLen == 2      \* longest product list handed to a matcher
MaxCalls == 2    \* match_products calls on one ProductMatcher object

-----------------------------------------------------------------------------
(* Python string primitives *)

LowerChars == <<"a","b","c","d","e","f","g","h","i","j","k","l","m",
                "n","o","p","q","r","s","t","u","v","w","x","y","z">>
UpperChars == <<"A","B","C","D","E","F","G","H","I","J","K","L","M",
                "N","O","P","Q","R","S","T","U","V","W","X","Y","Z">>
Digits == <<"0","1","2","3","4","5","6","7","8","9">>

DigitSet == { Digits[i] : i \in 1..10 }
DigitValue == [c \in DigitSet |-> (CHOOSE i \in 1..10 : Digits[i] = c) - 1]
IsDigit(c) == c \in DigitSet
DigitVal(c) == DigitValue[c]
IsSpace(c) == c = " "

\* str.upper() / str.lower() on one character
UpperOf == [c \in { LowerChars[i] : i \in 1..26 } |->
               UpperChars[CHOOSE i \in 1..26 : LowerChars[i] = c]]
LowerOf == [c \in { UpperChars[i] : i \in 1..26 } |->
               LowerChars[CHOOSE i \in 1..26 : UpperChars[i] = c]]
upperChar(c) == IF c \in DOMAIN UpperOf THEN UpperOf[c] ELSE c
lowerChar(c) == IF c \in DOMAIN LowerOf THEN LowerOf[c] ELSE c

upper(s) == [i \in 1..Len(s) |-> upperChar(s[i])]
lower(s) == [i \in 1..Len(s) |-> lowerChar(s[i])]

\* s[i:] starts with sub
StartsAt(s, i, sub) ==
    /\ i >= 1
    /\ i + Len(sub) - 1 <= Len(s)
    /\ \A k \in 1..Len(sub) : s[i + k - 1] = sub[k]

\* Python "sub in s"
Contains(sub, s) == \E i \in 1..(Len(s) + 1) : StartsAt(s, i, sub)

\* s.replace(' ', '')
RECURSIVE RemoveSpaces(_)
RemoveSpaces(s) ==
    IF s = <<>> THEN <<>>
    ELSE IF Head(s) = " " THEN RemoveSpaces(Tail(s))
    ELSE <<Head(s)>> \o RemoveSpaces(Tail(s))

\* first position >= i that is not whitespace (\s*)
RECURSIVE SkipSpaces(_, _)
SkipSpaces(s, i) ==
    IF i <= Len(s) /\ IsSpace(s[i]) THEN SkipSpaces(s, i + 1) ELSE i

\* first position >= i that is not a digit (\d* taken greedily)
RECURSIVE SkipDigits(_, _)
SkipDigits(s, i) ==
    IF i <= Len(s) /\ IsDigit(s[i]) THEN SkipDigits(s, i + 1) ELSE i

\* int(s) of a string of digits
RECURSIVE ParseInt(_)
ParseInt(s) ==
    IF s = <<>> THEN 0
    ELSE 10 * ParseInt(SubSeq(s, 1, Len(s) - 1)) + DigitVal(s[Len(s)])

Abs(x) == IF x < 0 THEN -x ELSE x
Max(x, y) == IF x >= y THEN x ELSE y

\* dict.get(key, default)
Get(d, key, default) == IF key \in d.keys THEN d[key] ELSE default

\* the marker of "re.search found nothing"
NoMatch == <<"<None>">>

-----------------------------------------------------------------------------
(* Regular expressions of product_matcher.py *)

\* first index i in 1..Len(s) with P(s, i), or 0
FirstPos(s, P(_, _)) ==
    IF \E i \in 1..Len(s) : P(s, i)
    THEN CHOOSE i \in 1..Len(s) : P(s, i) /\ \A k \in 1..(i - 1) : ~P(s, k)
    ELSE 0

\* r'EN\s*(\d{3})' matches at i
EnAt(s, i) ==
    /\ StartsAt(s, i, <<"E","N">>)
    /\ LET j == SkipSpaces(s, i + 2)
       IN  j + 2 <= Len(s) /\ IsDigit(s[j]) /\ IsDigit(s[j + 1]) /\ IsDigit(s[j + 2])

\* re_search_EN that captures two digits of the family code only
re_search_EN_TwoDigits(s) ==
    LET i == FirstPos(s, EnAt)
    IN  IF i = 0 THEN NoMatch
        ELSE LET j == SkipSpaces(s, i + 2) IN SubSeq(s, j, j + 1)

\* re.search(r'EN\s*(\d{3})', s): group(1), or NoMatch
re_search_EN(s) ==
    LET i == FirstPos(s, EnAt)
    IN  IF i = 0 THEN NoMatch
        ELSE LET j == SkipSpaces(s, i + 2) IN SubSeq(s, j, j + 2)

\* end (exclusive) of r'SAE\s*\d+R\d+' matched at i, or 0; the R sits at SaeR(s, i)
SaeR(s, i) == SkipDigits(s, SkipSpaces(s, i + 3))
SaeEnd(s, i) ==
    IF ~StartsAt(s, i, <<"S","A","E">>) THEN 0
    ELSE LET j == SkipSpaces(s, i + 3)
             k == SkipDigits(s, j)
         IN  IF k > j /\ k <= Len(s) /\ s[k] = "R" /\ SkipDigits(s, k + 1) > k + 1
             THEN SkipDigits(s, k + 1)
             ELSE 0
SaeAt(s, i) == SaeEnd(s, i) # 0

\* re.search(r'SAE\s*\d+R(\d+)', s): group(1), or NoMatch
re_search_SAE(s) ==
    LET i == FirstPos(s, SaeAt)
    IN  IF i = 0 THEN NoMatch
        ELSE SubSeq(s, SaeR(s, i) + 1, SaeEnd(s, i) - 1)

\* end (exclusive) of r'DIN\s*EN\s*\d+' matched at i, or 0
DinEnEnd(s, i) ==
    IF ~StartsAt(s, i, <<"D","I","N">>) THEN 0
    ELSE LET j == SkipSpaces(s, i + 3)
         IN  IF ~StartsAt(s, j, <<"E","N">>) THEN 0
             ELSE LET k == SkipSpaces(s, j + 2)
                  IN  IF SkipDigits(s, k) > k THEN SkipDigits(s, k) ELSE 0
DinEnAt(s, i) == DinEnEnd(s, i) # 0

\* end (exclusive) of r'EN\s*\d+' matched at i, or 0
EnNumEnd(s, i) ==
    IF ~StartsAt(s, i, <<"E","N">>) THEN 0
    ELSE LET k == SkipSpaces(s, i + 2)
         IN  IF SkipDigits(s, k) > k THEN SkipDigits(s, k) ELSE 0
EnNumAt(s, i) == EnNumEnd(s, i) # 0

\* end (exclusive) of r'ISO\s*\d+' matched at i, or 0
IsoEnd(s, i) ==
    IF ~StartsAt(s, i, <<"I","S","O">>) THEN 0
    ELSE LET k == SkipSpaces(s, i + 3)
         IN  IF SkipDigits(s, k) > k THEN SkipDigits(s, k) ELSE 0
IsoAt(s, i) == IsoEnd(s, i) # 0

\* ProductMatcher._extract_standard_code: the first pattern that matches
\* (re.IGNORECASE), its text with the spaces removed; else the string itself
_extract_standard_code(standard) ==
    LET u == upper(standard)
        d == FirstPos(u, DinEnAt)
        a == FirstPos(u, SaeAt)
        e == FirstPos(u, EnNumAt)
        o == FirstPos(u, IsoAt)
    IN  IF d # 0 THEN RemoveSpaces(SubSeq(standard, d, DinEnEnd(u, d) - 1))
        ELSE IF a # 0 THEN RemoveSpaces(SubSeq(standard, a, SaeEnd(u, a) - 1))
        ELSE IF e # 0 THEN RemoveSpaces(SubSeq(standard, e, EnNumEnd(u, e) - 1))
        ELSE IF o # 0 THEN RemoveSpaces(SubSeq(standard, o, IsoEnd(u, o) - 1))
        ELSE standard

-----------------------------------------------------------------------------
(* ProductMatcher._calculate_match_score *)

\* ConstructionGate without the "wire vs textile" test
ConstructionGate_OneWay(balflex_const, heizmann_const) ==
    IF balflex_const # <<>> /\ heizmann_const # <<>>
    THEN IF Contains(<<"t","e","x","t","i","l","e">>, balflex_const)
            /\ Contains(<<"w","i","r","e">>, heizmann_const)
         THEN "Construction mismatch: textile vs wire - INCOMPATIBLE"
         ELSE IF Contains(<<"s","p","i","r","a","l">>, balflex_const)
                 # Contains(<<"s","p","i","r","a","l">>, heizmann_const)
         THEN "Construction mismatch: spiral vs non-spiral - INCOMPATIBLE"
         ELSE ""
    ELSE ""

\* ConstructionGate without the "spiral vs non-spiral" test
ConstructionGate_NoSpiral(balflex_const, heizmann_const) ==
    IF balflex_const # <<>> /\ heizmann_const # <<>>
    THEN IF Contains(<<"t","e","x","t","i","l","e">>, balflex_const)
            /\ Contains(<<"w","i","r","e">>, heizmann_const)
         THEN "Construction mismatch: textile vs wire - INCOMPATIBLE"
         ELSE IF Contains(<<"w","i","r","e">>, balflex_const)
                 /\ Contains(<<"t","e","x","t","i","l","e">>, heizmann_const)
         THEN "Construction mismatch: wire vs textile - INCOMPATIBLE"
         ELSE ""
    ELSE ""

\* ConstructionGate that also rejects a pair with a construction missing
ConstructionGate_MissingRejects(balflex_const, heizmann_const) ==
    IF balflex_const = <<>> \/ heizmann_const = <<>>
    THEN "Construction mismatch: missing - INCOMPATIBLE"
    ELSE IF Contains(<<"t","e","x","t","i","l","e">>, balflex_const)
            /\ Contains(<<"w","i","r","e">>, heizmann_const)
    THEN "Construction mismatch: textile vs wire - INCOMPATIBLE"
    ELSE IF Contains(<<"w","i","r","e">>, balflex_const)
            /\ Contains(<<"t","e","x","t","i","l","e">>, heizmann_const)
    THEN "Construction mismatch: wire vs textile - INCOMPATIBLE"
    ELSE IF Contains(<<"s","p","i","r","a","l">>, balflex_const)
            # Contains(<<"s","p","i","r","a","l">>, heizmann_const)
    THEN "Construction mismatch: spiral vs non-spiral - INCOMPATIBLE"
    ELSE ""

\* the CRITICAL PRE-CHECK: the reason of the rejection, or "" to proceed
ConstructionGate(balflex_const, heizmann_const) ==
    IF balflex_const # <<>> /\ heizmann_const # <<>>
    THEN IF Contains(<<"t","e","x","t","i","l","e">>, balflex_const)
            /\ Contains(<<"w","i","r","e">>, heizmann_const)
         THEN "Construction mismatch: textile vs wire - INCOMPATIBLE"
         ELSE IF Contains(<<"w","i","r","e">>, balflex_const)
                 /\ Contains(<<"t","e","x","t","i","l","e">>, heizmann_const)
         THEN "Construction mismatch: wire vs textile - INCOMPATIBLE"
         ELSE IF Contains(<<"s","p","i","r","a","l">>, balflex_const)
                 # Contains(<<"s","p","i","r","a","l">>, heizmann_const)
         THEN "Construction mismatch: spiral vs non-spiral - INCOMPATIBLE"
         ELSE ""
    ELSE ""

\* dn.replace('DN', ''): every occurrence of 'DN' removed
RECURSIVE ReplaceDN(_)
ReplaceDN(s) ==
    IF s = <<>> THEN <<>>
    ELSE IF StartsAt(s, 1, <<"D","N">>) THEN ReplaceDN(SubSeq(s, 3, Len(s)))
    ELSE <<Head(s)>> \o ReplaceDN(Tail(s))

\* 1. DN (30 points)
DnPoints(balflex, heizmann) ==
    LET bdn == Get(balflex, "dn", <<>>)
        hdn == Get(heizmann, "dn", <<>>)
    IN  IF bdn # <<>> /\ hdn # <<>>
        THEN IF bdn = hdn
             THEN [pts |-> 30, rs |-> <<"DN match">>]
             ELSE IF Abs(ParseInt(ReplaceDN(bdn)) - ParseInt(ReplaceDN(hdn))) <= 2
             THEN [pts |-> 15, rs |-> <<"DN close">>]
             ELSE [pts |-> 0, rs |-> <<>>]
        ELSE [pts |-> 0, rs |-> <<>>]

\* d.get('working_pressure_mpa') or d.get('working_pressure_bar')
PressureOf(d) ==
    IF Get(d, "working_pressure_mpa", 0) # 0
    THEN d.working_pressure_mpa
    ELSE Get(d, "working_pressure_bar", 0)

\* PressureMPa that forgets the bar -> MPa division
PressureMPa_Raw(d) == PressureOf(d)

\* "Convert both to MPa": a dict with the key working_pressure_bar is divided by 10
PressureMPa(d) ==
    IF "working_pressure_bar" \in d.keys
    THEN PressureOf(d) \div 10
    ELSE PressureOf(d)

\* abs(x - y) / max(x, y) * 100 <= pct
WithinPercent(x, y, pct) == Abs(x - y) * 100 <= pct * Max(x, y)

\* 2. Working pressure (25 points)
PressurePoints(balflex, heizmann) ==
    IF PressureOf(balflex) # 0 /\ PressureOf(heizmann) # 0
    THEN LET bp == PressureMPa(balflex)
             hp == PressureMPa(heizmann)
         IN  IF WithinPercent(bp, hp, 5)
             THEN [pts |-> 25, rs |-> <<"Pressure match">>]
             ELSE IF WithinPercent(bp, hp, 15)
             THEN [pts |-> 15, rs |-> <<"Pressure similar">>]
             ELSE IF WithinPercent(bp, hp, 30)
             THEN [pts |-> 8, rs |-> <<>>]
             ELSE [pts |-> 0, rs |-> <<>>]
    ELSE [pts |-> 0, rs |-> <<>>]

\* the "Fallback: old method for other standards"
StandardFallback(balflex_std, heizmann_std) ==
    LET bc == _extract_standard_code(balflex_std)
        hc == _extract_standard_code(heizmann_std)
    IN  IF bc = hc
        THEN [pts |-> 20, rs |-> <<"Standard match">>]
        ELSE IF Contains(bc, hc) \/ Contains(hc, bc)
        THEN [pts |-> 10, rs |-> <<"Standard similar">>]
        ELSE [pts |-> 0, rs |-> <<>>]

\* 3. Standard/Norm (20 points)
StandardPoints(balflex, heizmann) ==
    LET balflex_std == upper(Get(balflex, "standard", <<>>))
        heizmann_std == upper(Get(heizmann, "standard", <<>>))
    IN  IF balflex_std # <<>> /\ heizmann_std # <<>>
        THEN LET balflex_en_num == re_search_EN(balflex_std)
                 heizmann_en_num == re_search_EN(heizmann_std)
                 balflex_sae == re_search_SAE(balflex_std)
                 heizmann_sae == re_search_SAE(heizmann_std)
             IN  IF balflex_en_num # NoMatch /\ heizmann_en_num # NoMatch
                 THEN IF balflex_en_num = heizmann_en_num
                      THEN [pts |-> 20, rs |-> <<"Standard match">>]
                      ELSE IF balflex_en_num \in {<<"8","5","3">>, <<"8","5","7">>}
                              /\ heizmann_en_num \in {<<"8","5","3">>, <<"8","5","7">>}
                      THEN [pts |-> 10, rs |-> <<"Standard compatible">>]
                      ELSE StandardFallback(balflex_std, heizmann_std)
                 ELSE IF balflex_sae # NoMatch /\ heizmann_sae # NoMatch
                         /\ balflex_sae = heizmann_sae
                 THEN [pts |-> 20, rs |-> <<"Standard match">>]
                 ELSE StandardFallback(balflex_std, heizmann_std)
        ELSE [pts |-> 0, rs |-> <<>>]

\* 4. Construction type (15 points)
ConstructionPoints(balflex, heizmann) ==
    LET balflex_const == lower(Get(balflex, "construction", <<>>))
        heizmann_const == lower(Get(heizmann, "construction", <<>>))
        both(sub) == Contains(sub, balflex_const) /\ Contains(sub, heizmann_const)
    IN  IF balflex_const # <<>> /\ heizmann_const # <<>>
        THEN IF balflex_const = heizmann_const
             THEN [pts |-> 15, rs |-> <<"Construction match">>]
             ELSE IF \/ both(<<"1"," ","w","i","r","e">>)
                     \/ both(<<"2"," ","w","i","r","e">>)
                     \/ both(<<"s","p","i","r","a","l">>)
             THEN [pts |-> 12, rs |-> <<"Construction similar">>]
             ELSE [pts |-> 0, rs |-> <<>>]
        ELSE [pts |-> 0, rs |-> <<>>]

\* 5. Inner diameter (10 points)
DiameterPoints(balflex, heizmann) ==
    LET bd == Get(balflex, "inner_diameter_mm", 0)
        hd == Get(heizmann, "inner_diameter_mm", 0)
    IN  IF bd # 0 /\ hd # 0
        THEN IF WithinPercent(bd, hd, 5)
             THEN [pts |-> 10, rs |-> <<"Inner diameter match">>]
             ELSE IF WithinPercent(bd, hd, 15)
             THEN [pts |-> 5, rs |-> <<>>]
             ELSE [pts |-> 0, rs |-> <<>>]
        ELSE [pts |-> 0, rs |-> <<>>]

\* max_score after the five "max_score +=" statements
HoseMaxScore == 30 + 25 + 20 + 15 + 10

\* the return value: the gate's rejection, or "Normalize score to 0-100"
\* over the five criteria
NormalizedScore(gate, dn, pr, st, co, di) ==
    IF gate # ""
    THEN [score |-> 0, reasons |-> <<gate>>]
    ELSE [score |-> ((dn.pts + pr.pts + st.pts + co.pts + di.pts) * 100) \div HoseMaxScore,
          reasons |-> dn.rs \o pr.rs \o st.rs \o co.rs \o di.rs]

\* ProductMatcher._calculate_match_score: (normalized_score, reasons).
\* A reason is modelled by its label, the text before the first ':'
\* (the gate's reasons are kept whole).
_calculate_match_score(balflex, heizmann) ==
    NormalizedScore(ConstructionGate(lower(Get(balflex, "construction", <<>>)),
                                     lower(Get(heizmann, "construction", <<>>))),
                    DnPoints(balflex, heizmann),
                    PressurePoints(balflex, heizmann),
                    StandardPoints(balflex, heizmann),
                    ConstructionPoints(balflex, heizmann),
                    DiameterPoints(balflex, heizmann))

-----------------------------------------------------------------------------
(* Normalizers of match_pressarmaturen_WITH_SERIES.py / _IMPROVED.py.      *)
(* None is the empty sequence (both are falsy and nothing else is read).   *)

StandardBases == <<<<"I","S","O">>, <<"J","I","S">>, <<"B","S","P">>, <<"N","P","T">>, <<"J","I","C">>, <<"O","R","F","S">>, <<"S","A","E">>, <<"D","I","N">>>>

\* normalize_standard: the first base, in list order, contained in std.upper()
normalize_standard(std) ==
    IF std = <<>> THEN <<>>
    ELSE LET std_upper == upper(std)
             hit(k) == Contains(StandardBases[k], std_upper)
         IN  IF \E k \in 1..Len(StandardBases) : hit(k)
             THEN StandardBases[CHOOSE k \in 1..Len(StandardBases) :
                                   hit(k) /\ \A m \in 1..(k - 1) : ~hit(m)]
             ELSE <<>>

\* r'(\d+)°' matches at i
DegreeAt(s, i) ==
    /\ i <= Len(s) /\ IsDigit(s[i])
    /\ LET k == SkipDigits(s, i) IN k <= Len(s) /\ s[k] = "°"

\* normalize_seat_type
normalize_seat_type(seat) ==
    IF seat = <<>> THEN <<>>
    ELSE LET i == FirstPos(seat, DegreeAt)
         IN  IF i # 0
             THEN SubSeq(seat, i, SkipDigits(seat, i) - 1) \o <<"°"," ","C","o","n","e">>
             ELSE IF Contains(<<"f","l","a","t">>, lower(seat))
             THEN <<"F","l","a","t"," ","F","a","c","e">>
             ELSE IF Contains(<<"o","-","r","i","n","g">>, lower(seat))
                     \/ Contains(<<"o","r","i","n","g">>, lower(seat))
             THEN <<"O","-","R","i","n","g">>
             ELSE <<>>

female_keywords == <<<<"m","u","f","f","e">>, <<"m","u","t","t","e","r">>, <<"f","e","m","a","l","e">>, <<"s","o","c","k","e","t">>, <<"c","o","u","p","l","e","r">>>>
male_keywords == <<<<"n","i","p","p","e","l">>, <<"s","t","e","c","k","e","r">>, <<"m","a","l","e">>, <<"p","l","u","g">>, <<"s","t","e","m">>>>

\* determine_gender_heizmann
determine_gender_heizmann(heizmann_item) ==
    LET connection == lower(Get(heizmann_item, "connection_type", <<>>))
        ident == Get(heizmann_item, "identification", <<>>)
        model == Get(heizmann_item, "model", <<>>)
        combined == lower(model \o <<" ">> \o ident)
    IN  IF Contains(<<"i","n","n","e","n","g","e","w","i","n","d","e">>, connection)
           \/ Contains(<<"i","n","n","e","n","k","e","g","e","l">>, connection)
        THEN "Female"
        ELSE IF Contains(<<"a","u","s","s","e","n","g","e","w","i","n","d","e">>, connection)
                \/ Contains(<<"a","u","s","s","e","n","k","e","g","e","l">>, connection)
        THEN "Male"
        ELSE IF \E k \in 1..Len(female_keywords) : Contains(female_keywords[k], combined)
        THEN "Female"
        ELSE IF \E k \in 1..Len(male_keywords) : Contains(male_keywords[k], combined)
        THEN "Male"
        ELSE "Unknown"

\* float(s) of a decimal numeral with at most two decimals, in hundredths;
\* ok is FALSE where float() raises ValueError
FloatOf(s) ==
    LET dot == IF \E i \in 1..Len(s) : s[i] = "."
               THEN CHOOSE i \in 1..Len(s) : s[i] = "." /\ \A k \in 1..(i - 1) : s[k] # "."
               ELSE Len(s) + 1
        ip == SubSeq(s, 1, dot - 1)
        fp == SubSeq(s, dot + 1, Len(s))
        allDigits(x) == \A i \in 1..Len(x) : IsDigit(x[i])
        ok == allDigits(ip) /\ allDigits(fp) /\ Len(ip) + Len(fp) >= 1 /\ Len(fp) <= 2
    IN  IF ~ok THEN [ok |-> FALSE, val |-> 0]
        ELSE [ok |-> TRUE,
              val |-> 100 * ParseInt(ip)
                      + (IF Len(fp) = 0 THEN 0
                         ELSE IF Len(fp) = 1 THEN 10 * ParseInt(fp)
                         ELSE ParseInt(fp))]

-----------------------------------------------------------------------------
(* calculate_match_score of match_pressarmaturen_WITH_SERIES.py.           *)
(* A reason or warning is modelled by its label.                           *)

\* one criterion's outcome: points, reasons, warnings, and the rejection
\* warning ("" when the criterion does not reject)
Crit(pts, rs, ws, rej) == [pts |-> pts, rs |-> rs, ws |-> ws, rej |-> rej]

\* CRITERION 1: ANGLE (MANDATORY - 20 points)
AngleCriterion(heizmann_angle, balflex_angle) ==
    IF heizmann_angle # "" /\ balflex_angle # ""
    THEN IF heizmann_angle = balflex_angle
         THEN Crit(20, <<"Angle">>, <<>>, "")
         ELSE Crit(0, <<>>, <<>>, "ANGLE MISMATCH")
    ELSE IF heizmann_angle # "" \/ balflex_angle # ""
    THEN Crit(0, <<>>, <<"Angle missing in one product">>, "")
    ELSE Crit(0, <<>>, <<>>, "")

\* SeriesCriterion that lets a series mismatch pass with a warning
SeriesCriterion_Lenient(heizmann_series, balflex_series) ==
    IF heizmann_series # "" /\ balflex_series # ""
    THEN IF heizmann_series = balflex_series
         THEN Crit(20, <<"Series">>, <<>>, "")
         ELSE Crit(0, <<>>, <<"Series differs">>, "")
    ELSE IF heizmann_series # "" \/ balflex_series # ""
    THEN Crit(0, <<>>, <<"Series (L/S) missing in one product">>, "")
    ELSE Crit(0, <<>>, <<>>, "")

\* CRITERION 2: SERIES L/S (MANDATORY - 20 points)
SeriesCriterion(heizmann_series, balflex_series) ==
    IF heizmann_series # "" /\ balflex_series # ""
    THEN IF heizmann_series = balflex_series
         THEN Crit(20, <<"Series">>, <<>>, "")
         ELSE Crit(0, <<>>, <<>>, "SERIES MISMATCH")
    ELSE IF heizmann_series # "" \/ balflex_series # ""
    THEN Crit(0, <<>>, <<"Series (L/S) missing in one product">>, "")
    ELSE Crit(0, <<>>, <<>>, "")

\* CRITERION 3: STANDARD (MANDATORY - 30 points)
StandardCriterion(heizmann_std, balflex_std) ==
    IF heizmann_std # <<>> /\ balflex_std # <<>>
    THEN IF heizmann_std = balflex_std
         THEN Crit(30, <<"Standard">>, <<>>, "")
         ELSE Crit(0, <<>>, <<>>, "STANDARD MISMATCH")
    ELSE IF heizmann_std # <<>> \/ balflex_std # <<>>
    THEN Crit(0, <<>>, <<"Standard missing in one product">>, "")
    ELSE Crit(0, <<>>, <<>>, "")

\* CRITERION 4: DN (25 points); dn values are strings (or ints) given to float()
DnCriterion(heizmann_dn, balflex_dn) ==
    IF heizmann_dn # <<>> /\ balflex_dn # <<>>
    THEN LET h == FloatOf(heizmann_dn)
             b == FloatOf(balflex_dn)
         IN  IF ~h.ok \/ ~b.ok
             THEN Crit(0, <<>>, <<"DN values not comparable">>, "")
             ELSE IF Abs(h.val - b.val) <= 50
             THEN Crit(25, <<"DN">>, <<>>, "")
             ELSE IF Abs(h.val - b.val) <= 200
             THEN Crit(12, <<"DN close">>, <<>>, "")
             ELSE Crit(0, <<>>, <<"DN mismatch">>, "")
    ELSE IF heizmann_dn # <<>> \/ balflex_dn # <<>>
    THEN Crit(0, <<>>, <<"DN missing in one product">>, "")
    ELSE Crit(0, <<>>, <<>>, "")

\* CRITERION 5: SEAT TYPE (5 points)
SeatCriterion(heizmann_seat, balflex_seat) ==
    IF heizmann_seat # <<>> /\ balflex_seat # <<>>
    THEN IF heizmann_seat = balflex_seat
         THEN Crit(5, <<"Seat">>, <<>>, "")
         ELSE Crit(0, <<>>, <<"Seat mismatch">>, "")
    ELSE IF heizmann_seat # <<>> \/ balflex_seat # <<>>
    THEN Crit(0, <<>>, <<"Seat type missing in one product">>, "")
    ELSE Crit(0, <<>>, <<>>, "")

\* BONUS: Gender match (validation only)
GenderBonus(heizmann_gender, balflex_gender) ==
    IF heizmann_gender # "" /\ balflex_gender # ""
       /\ heizmann_gender # "Unknown" /\ balflex_gender # "Unknown"
    THEN IF heizmann_gender = balflex_gender
         THEN Crit(0, <<"Gender">>, <<>>, "")
         ELSE Crit(0, <<>>, <<"Gender mismatch">>, "")
    ELSE Crit(0, <<>>, <<>>, "")

\* "if warnings: reasons.append(f'[Warnings: ...]')"
WithWarnings(reasons, warnings) ==
    IF warnings # <<>> THEN Append(reasons, "[Warnings]") ELSE reasons

\* ScoreReasonsWarnings with a scored gender: +5 for a gender match, -10
\* for a mismatch
ScoreReasonsWarnings_GenderScored(an, se, st, dn, sa, ge) ==
    IF an.rej # "" THEN [score |-> 0, reasons |-> <<>>, warnings |-> <<an.rej>>]
    ELSE IF se.rej # "" THEN [score |-> 0, reasons |-> <<>>, warnings |-> <<se.rej>>]
    ELSE IF st.rej # "" THEN [score |-> 0, reasons |-> <<>>, warnings |-> <<st.rej>>]
    ELSE [score |-> an.pts + se.pts + st.pts + dn.pts + sa.pts
                      + (IF ge.rs # <<>> THEN 5 ELSE 0) - (IF ge.ws # <<>> THEN 10 ELSE 0),
          reasons |-> WithWarnings(an.rs \o se.rs \o st.rs \o dn.rs \o sa.rs \o ge.rs,
                                   an.ws \o se.ws \o st.ws \o dn.ws \o sa.ws \o ge.ws),
          warnings |-> an.ws \o se.ws \o st.ws \o dn.ws \o sa.ws \o ge.ws]

\* the return value: "return 0, [], [warning]" of the first criterion that
\* rejects, or the sum of the points with the reasons and the warnings
ScoreReasonsWarnings(an, se, st, dn, sa, ge) ==
    IF an.rej # "" THEN [score |-> 0, reasons |-> <<>>, warnings |-> <<an.rej>>]
    ELSE IF se.rej # "" THEN [score |-> 0, reasons |-> <<>>, warnings |-> <<se.rej>>]
    ELSE IF st.rej # "" THEN [score |-> 0, reasons |-> <<>>, warnings |-> <<st.rej>>]
    ELSE [score |-> an.pts + se.pts + st.pts + dn.pts + sa.pts,
          reasons |-> WithWarnings(an.rs \o se.rs \o st.rs \o dn.rs \o sa.rs \o ge.rs,
                                   an.ws \o se.ws \o st.ws \o dn.ws \o sa.ws \o ge.ws),
          warnings |-> an.ws \o se.ws \o st.ws \o dn.ws \o sa.ws \o ge.ws]

\* calculate_match_score (WITH_SERIES): (score, reasons, warnings)
calculate_match_score(heizmann_item, balflex_item) ==
    ScoreReasonsWarnings(
        AngleCriterion(Get(heizmann_item, "angle", ""), Get(balflex_item, "angle", "")),
        SeriesCriterion(Get(heizmann_item, "series", ""), Get(balflex_item, "series", "")),
        StandardCriterion(normalize_standard(Get(heizmann_item, "standard", <<>>)),
                          normalize_standard(Get(balflex_item, "standard", <<>>))),
        DnCriterion(Get(heizmann_item, "dn", <<>>), Get(balflex_item, "hose_size_mm", <<>>)),
        SeatCriterion(normalize_seat_type(Get(heizmann_item, "seat_type", <<>>)),
                      normalize_seat_type(Get(balflex_item, "seat_type", <<>>))),
        GenderBonus(determine_gender_heizmann(heizmann_item),
                    Get(balflex_item, "gender", "")))

-----------------------------------------------------------------------------
(* calculate_match_score of match_pressarmaturen_IMPROVED.py *)

\* int(float(s)) of the string s, 0 standing for None
IntOfFloat(f) == IF f.ok THEN f.val \div 100 ELSE 0

\* int(float(balflex_item['hose_size_mm'])), 0 standing for None
ImprovedBalflexDn(balflex_item) ==
    IF Get(balflex_item, "hose_size_mm", <<>>) # <<>>
    THEN IntOfFloat(FloatOf(Get(balflex_item, "hose_size_mm", <<>>)))
    ELSE 0

\* CRITERION 1: STANDARD (40 points - MANDATORY)
ImprovedStandard(heizmann_std, balflex_std) ==
    IF heizmann_std # <<>> /\ balflex_std # <<>>
    THEN IF heizmann_std = balflex_std
         THEN Crit(40, <<"Standard">>, <<>>, "")
         ELSE Crit(0, <<>>, <<>>, "Standard mismatch")
    ELSE IF heizmann_std # <<>> \/ balflex_std # <<>>
    THEN Crit(0, <<>>, <<"missing standard">>, "")
    ELSE Crit(0, <<>>, <<>>, "")

\* "abs(heizmann_dn - balflex_dn)" with a str heizmann_dn is a TypeError
ImprovedDnRaises(heizmann_dn, dn_type, balflex_dn) ==
    heizmann_dn # <<>> /\ balflex_dn # 0 /\ dn_type = "str"

\* CRITERION 2: DN (30 points), for an int heizmann_dn
ImprovedDn(heizmann_dn, balflex_dn) ==
    IF heizmann_dn # <<>> /\ balflex_dn # 0
    THEN IF ParseInt(heizmann_dn) = balflex_dn
         THEN Crit(30, <<"DN">>, <<>>, "")
         ELSE IF Abs(ParseInt(heizmann_dn) - balflex_dn) <= 2
         THEN Crit(15, <<"DN close">>, <<>>, "")
         ELSE Crit(0, <<>>, <<"DN mismatch">>, "")
    ELSE IF heizmann_dn # <<>> \/ balflex_dn # 0
    THEN Crit(0, <<>>, <<"DN missing in one product">>, "")
    ELSE Crit(0, <<>>, <<>>, "")

\* CRITERION 3: SEAT TYPE (20 points)
ImprovedSeat(heizmann_seat, balflex_seat) ==
    IF heizmann_seat # <<>> /\ balflex_seat # <<>>
    THEN IF heizmann_seat = balflex_seat
         THEN Crit(20, <<"Seat">>, <<>>, "")
         ELSE Crit(0, <<>>, <<"Seat mismatch">>, "")
    ELSE IF heizmann_seat # <<>> \/ balflex_seat # <<>>
    THEN Crit(0, <<>>, <<"Seat type missing in one product">>, "")
    ELSE Crit(0, <<>>, <<>>, "")

\* gender criterion of the IMPROVED scorer: 10 points, or the -10 penalty
ImprovedGender(heizmann_gender, balflex_gender) ==
    IF heizmann_gender # "" /\ balflex_gender # ""
    THEN IF heizmann_gender = balflex_gender
         THEN Crit(10, <<"Gender">>, <<>>, "")
         ELSE IF heizmann_gender # "Unknown" /\ balflex_gender # "Unknown"
         THEN Crit(-10, <<>>, <<"Gender mismatch">>, "")
         ELSE Crit(0, <<>>, <<>>, "")
    ELSE IF heizmann_gender # "" \/ balflex_gender # ""
    THEN Crit(0, <<>>, <<"Gender missing in one product">>, "")
    ELSE Crit(0, <<>>, <<>>, "")

\* the return value: "return 0, []" on a standard mismatch, the TypeError
\* (raised), or the sum of the points with the reasons
ImprovedScoreReasons(st, dnRaises, dn, sa, ge) ==
    IF st.rej # "" THEN [raised |-> FALSE, score |-> 0, reasons |-> <<>>]
    ELSE IF dnRaises THEN [raised |-> TRUE, score |-> 0, reasons |-> <<>>]
    ELSE [raised |-> FALSE,
          score |-> st.pts + dn.pts + sa.pts + ge.pts,
          reasons |-> WithWarnings(st.rs \o dn.rs \o sa.rs \o ge.rs,
                                   st.ws \o dn.ws \o sa.ws \o ge.ws)]

\* calculate_match_score (IMPROVED): (score, reasons); raised is TRUE where
\* the call ends in a TypeError (a str dn in "abs(heizmann_dn - balflex_dn)")
improved_calculate_match_score(heizmann_item, balflex_item) ==
    ImprovedScoreReasons(
        ImprovedStandard(normalize_standard(Get(heizmann_item, "standard", <<>>)),
                         normalize_standard(Get(balflex_item, "standard", <<>>))),
        ImprovedDnRaises(Get(heizmann_item, "dn", <<>>), heizmann_item.dn_type,
                         ImprovedBalflexDn(balflex_item)),
        ImprovedDn(Get(heizmann_item, "dn", <<>>), ImprovedBalflexDn(balflex_item)),
        ImprovedSeat(normalize_seat_type(Get(heizmann_item, "seat_type", <<>>)),
                     normalize_seat_type(Get(balflex_item, "seat_type", <<>>))),
        ImprovedGender(determine_gender_heizmann(heizmann_item),
                       Get(balflex_item, "gender", "")))

-----------------------------------------------------------------------------
(* Fitting product lists *)

\* Heizmann fitting records (dn_type: the Python type of dn, 'str' from the
\* scraper, 'int' from enhance_heizmann_data)
HeizmannFittings == <<
    [keys |-> {"reference", "model", "angle", "series", "standard", "dn", "seat_type", "connection_type"},
     reference |-> <<"H","F","1">>, model |-> <<"P","r","e","s","s","n","i","p","p","e","l"," ","D","K","O","L">>,
     angle |-> "90°", series |-> "L", dn |-> <<"1","6">>, dn_type |-> "str",
     standard |-> <<"I","S","O"," ","8","4","3","4","-","1">>,
     seat_type |-> <<"2","4","°"," ","I","n","n","e","n","k","o","n","u","s">>,
     connection_type |-> <<"I","n","n","e","n","g","e","w","i","n","d","e">>,
     identification |-> <<>>],
    [keys |-> {"reference", "model", "angle", "series", "standard", "dn", "connection_type"},
     reference |-> <<"H","F","2">>, model |-> <<"P","r","e","s","s","n","i","p","p","e","l"," ","C","E","S">>,
     angle |-> "Straight", series |-> "S", dn |-> <<"1","2">>, dn_type |-> "str",
     standard |-> <<"D","I","N"," ","2","3","5","3">>,
     seat_type |-> <<>>,
     connection_type |-> <<"A","u","s","s","e","n","g","e","w","i","n","d","e">>,
     identification |-> <<>>],
    [keys |-> {"reference", "model", "angle", "standard", "dn", "seat_type", "identification"},
     reference |-> <<"H","F","3">>, model |-> <<"J","I","C"," ","N","i","p","p","e","l">>,
     angle |-> "45°", series |-> "", dn |-> <<"1","0">>, dn_type |-> "int",
     standard |-> <<"S","A","E"," ","J","5","1","4"," ","J","I","C">>,
     seat_type |-> <<"3","7","°"," ","C","o","n","e">>,
     connection_type |-> <<>>,
     identification |-> <<"D","N","1","0"," ","7","/","8","-","1","4">>],
    [keys |-> {"reference", "model", "dn", "connection_type"},
     reference |-> <<"H","F","4">>, model |-> <<"P","r","e","s","s","m","u","f","f","e">>,
     angle |-> "", series |-> "", dn |-> <<"1","6">>, dn_type |-> "str",
     standard |-> <<>>,
     seat_type |-> <<>>,
     connection_type |-> <<"I","n","n","e","n","g","e","w","i","n","d","e">>,
     identification |-> <<>>],
    [keys |-> {"reference", "model", "connection_type"},
     reference |-> <<"H","F","5">>, model |-> <<"P","r","e","s","s","a","r","m","a","t","u","r">>,
     angle |-> "", series |-> "", dn |-> <<>>, dn_type |-> "",
     standard |-> <<>>,
     seat_type |-> <<>>,
     connection_type |-> <<"I","n","n","e","n","g","e","w","i","n","d","e">>,
     identification |-> <<>>],
    [keys |-> {"reference", "model", "angle", "series", "standard", "dn", "seat_type", "identification"},
     reference |-> <<"H","F","6">>, model |-> <<"P","r","e","s","s","n","i","p","p","e","l"," ","D","K","O","L">>,
     angle |-> "90°", series |-> "L", dn |-> <<"1","6">>, dn_type |-> "int",
     standard |-> <<"I","S","O"," ","8","4","3","4","-","1">>,
     seat_type |-> <<"2","4","°"," ","K","o","n","u","s">>,
     connection_type |-> <<>>,
     identification |-> <<"D","N","1","6"," ","M","2","2","x","1",".","5">>],
    [keys |-> {"reference", "model", "angle", "standard", "dn", "seat_type"},
     reference |-> <<"H","F","7">>, model |-> <<"P","r","e","s","s","n","i","p","p","e","l"," ","B","S","P">>,
     angle |-> "90°", series |-> "", dn |-> <<"2","0">>, dn_type |-> "str",
     standard |-> <<"B","S","P">>,
     seat_type |-> <<"6","0","°"," ","I","n","n","e","n","k","o","n","u","s">>,
     connection_type |-> <<>>,
     identification |-> <<>>]
>>

\* Balflex fitting records (hose_size_mm as fix_balflex_hose_sizes writes it;
\* BF8 is a variant with the attributes of BF1)
BalflexFittings == <<
    [keys |-> {"reference", "angle", "series", "standard", "hose_size_mm", "seat_type", "gender"},
     reference |-> <<"B","F","1">>,
     angle |-> "90°", series |-> "L", hose_size_mm |-> <<"1","5",".","9">>,
     standard |-> <<"I","S","O"," ","8","4","3","4","-","1">>,
     seat_type |-> <<"2","4","°"," ","C","o","n","e"," ","S","e","a","t">>,
     gender |-> "Female"],
    [keys |-> {"reference", "angle", "series", "standard", "hose_size_mm", "seat_type", "gender"},
     reference |-> <<"B","F","8">>,
     angle |-> "90°", series |-> "L", hose_size_mm |-> <<"1","5",".","9">>,
     standard |-> <<"I","S","O"," ","8","4","3","4","-","1">>,
     seat_type |-> <<"2","4","°"," ","C","o","n","e"," ","S","e","a","t">>,
     gender |-> "Female"],
    [keys |-> {"reference", "angle", "series", "standard", "hose_size_mm", "gender"},
     reference |-> <<"B","F","2">>,
     angle |-> "90°", series |-> "S", hose_size_mm |-> <<"1","5",".","9">>,
     standard |-> <<"I","S","O"," ","8","4","3","4","-","1">>,
     seat_type |-> <<>>,
     gender |-> "Female"],
    [keys |-> {"reference", "angle", "series", "standard", "hose_size_mm", "gender"},
     reference |-> <<"B","F","3">>,
     angle |-> "Straight", series |-> "S", hose_size_mm |-> <<"1","2",".","7">>,
     standard |-> <<"D","I","N"," ","2","3","5","3">>,
     seat_type |-> <<>>,
     gender |-> "Male"],
    [keys |-> {"reference", "angle", "standard", "hose_size_mm", "seat_type", "gender"},
     reference |-> <<"B","F","4">>,
     angle |-> "45°", series |-> "", hose_size_mm |-> <<"9",".","5">>,
     standard |-> <<"J","I","C"," ","3","7","°">>,
     seat_type |-> <<"3","7","°"," ","C","o","n","e"," ","S","e","a","t">>,
     gender |-> "Male"],
    [keys |-> {"reference", "gender"},
     reference |-> <<"B","F","5">>,
     angle |-> "", series |-> "", hose_size_mm |-> <<>>,
     standard |-> <<>>,
     seat_type |-> <<>>,
     gender |-> "Male"],
    [keys |-> {"reference", "angle", "standard", "hose_size_mm", "seat_type", "gender"},
     reference |-> <<"B","F","6">>,
     angle |-> "90°", series |-> "", hose_size_mm |-> <<"1","9",".","0">>,
     standard |-> <<"B","S","P"," ","6","0","°">>,
     seat_type |-> <<"6","0","°"," ","C","o","n","e">>,
     gender |-> "Unknown"],
    [keys |-> {"reference", "angle", "standard", "hose_size_mm", "seat_type"},
     reference |-> <<"B","F","7">>,
     angle |-> "Straight", series |-> "", hose_size_mm |-> <<"1","2",".","7">>,
     standard |-> <<"S","A","E"," ","J","5","1","8">>,
     seat_type |-> <<"F","l","a","t"," ","F","a","c","e"," ","O","-","R","i","n","g">>,
     gender |-> ""]
>>

-----------------------------------------------------------------------------
(* fix_balflex_hose_sizes.py *)

\* DASH_TO_MM as a sequence of (key, mm) items in dict order
DASH_TO_MM == <<
    <<<<"-","2">>, 320>>,
    <<<<"-","3">>, 480>>,
    <<<<"-","4">>, 640>>,
    <<<<"-","5">>, 790>>,
    <<<<"-","6">>, 950>>,
    <<<<"-","8">>, 1270>>,
    <<<<"-","1","0">>, 1590>>,
    <<<<"-","1","2">>, 1900>>,
    <<<<"-","1","6">>, 2540>>,
    <<<<"-","2","0">>, 3180>>,
    <<<<"-","2","4">>, 3810>>,
    <<<<"-","3","2">>, 5080>>,
    <<<<"-","4","0">>, 6350>>,
    <<<<"-","4","8">>, 7620>>,
    <<<<"2">>, 320>>,
    <<<<"3">>, 480>>,
    <<<<"4">>, 640>>,
    <<<<"5">>, 790>>,
    <<<<"6">>, 950>>,
    <<<<"8">>, 1270>>,
    <<<<"1","0">>, 1590>>,
    <<<<"1","2">>, 1900>>,
    <<<<"1","6">>, 2540>>,
    <<<<"2","0">>, 3180>>,
    <<<<"2","4">>, 3810>>,
    <<<<"3","2">>, 5080>>,
    <<<<"4","0">>, 6350>>,
    <<<<"4","8">>, 7620>>
>>

\* INCH_TO_MM as a sequence of (key, mm) items in dict order
INCH_TO_MM == <<
    <<<<"3","/","1","6">>, 480>>,
    <<<<"1","/","4">>, 640>>,
    <<<<"5","/","1","6">>, 790>>,
    <<<<"3","/","8">>, 950>>,
    <<<<"1","/","2">>, 1270>>,
    <<<<"5","/","8">>, 1590>>,
    <<<<"3","/","4">>, 1900>>,
    <<<<"7","/","8">>, 2220>>,
    <<<<"1">>, 2540>>,
    <<<<"1","-","1","/","4">>, 3180>>,
    <<<<"1","-","1","/","2">>, 3810>>,
    <<<<"2">>, 5080>>,
    <<<<"2","-","1","/","2">>, 6350>>,
    <<<<"3">>, 7620>>
>>

\* "key in table" and "table[key]" of a dict given as items
HasKey(table, key) == \E k \in 1..Len(table) : table[k][1] = key
Lookup(table, key) == table[CHOOSE k \in 1..Len(table) : table[k][1] = key][2]

\* str.strip() followed by replace(' ', '') leaves no space at all
StripAndRemoveSpaces(s) == RemoveSpaces(s)

FirstDigitAt(s, i) == i <= Len(s) /\ IsDigit(s[i])

\* normalize_dash_code: '-' + the first run of digits, or None (<<>>)
normalize_dash_code(dash_str) ==
    IF dash_str = <<>> THEN <<>>
    ELSE LET dash_clean == StripAndRemoveSpaces(dash_str)
             i == FirstPos(dash_clean, FirstDigitAt)
         IN  IF i # 0
             THEN <<"-">> \o SubSeq(dash_clean, i, SkipDigits(dash_clean, i) - 1)
             ELSE <<>>

\* s.replace('"', '')
RECURSIVE RemoveQuotes(_)
RemoveQuotes(s) ==
    IF s = <<>> THEN <<>>
    ELSE IF Head(s) = "\"" THEN RemoveQuotes(Tail(s))
    ELSE <<Head(s)>> \o RemoveQuotes(Tail(s))

\* round(x / y) for x >= 0, y > 0
RoundDiv(x, y) == (2 * x + y) \div (2 * y)

\* parse_inch_to_mm: mm in hundredths, 0 for None
parse_inch_to_mm(inch_str) ==
    IF inch_str = <<>> THEN 0
    ELSE LET inch_clean == RemoveSpaces(RemoveQuotes(inch_str))
             slashes == { i \in 1..Len(inch_clean) : inch_clean[i] = "/" }
         IN  IF HasKey(INCH_TO_MM, inch_clean) THEN Lookup(INCH_TO_MM, inch_clean)
             ELSE IF Cardinality(slashes) = 1
             THEN LET p == CHOOSE i \in slashes : TRUE
                      numerator == FloatOf(SubSeq(inch_clean, 1, p - 1))
                      denominator == FloatOf(SubSeq(inch_clean, p + 1, Len(inch_clean)))
                  IN  IF numerator.ok /\ denominator.ok /\ denominator.val # 0
                      THEN 10 * RoundDiv(numerator.val * 254, denominator.val)
                      ELSE 0
             ELSE 0

\* "Strategy 1": the table is consulted with the normalized dash code
DashKnown(dash_norm) == dash_norm # <<>> /\ HasKey(DASH_TO_MM, dash_norm)

\* fix_hose_size_from_dash that tries the inch size before the dash code
fix_hose_size_from_dash_InchFirst(p) ==
    LET dash == Get(p, "dash_size", <<>>)
        current_hose_mm == Get(p, "hose_size_mm", <<>>)
        hose_inch == Get(p, "hose_size_inch", <<>>)
        dash_norm == normalize_dash_code(dash)
        mm_from_inch == parse_inch_to_mm(hose_inch)
        mm_val == FloatOf(current_hose_mm)
    IN  IF hose_inch # <<>> /\ mm_from_inch # 0
        THEN [mm |-> mm_from_inch, source |-> "inch_conversion", data |-> hose_inch]
        ELSE IF DashKnown(dash_norm)
        THEN [mm |-> Lookup(DASH_TO_MM, dash_norm), source |-> "dash_code", data |-> dash_norm]
        ELSE IF current_hose_mm # <<>> /\ mm_val.ok
                /\ \E k \in 1..Len(DASH_TO_MM) : Abs(mm_val.val - DASH_TO_MM[k][2]) <= 200
        THEN [mm |-> mm_val.val, source |-> "validated_current", data |-> current_hose_mm]
        ELSE [mm |-> 0, source |-> "no_source", data |-> <<>>]

\* fix_hose_size_from_dash: (mm, source, source data); mm 0 for None
fix_hose_size_from_dash(p) ==
    LET dash == Get(p, "dash_size", <<>>)
        current_hose_mm == Get(p, "hose_size_mm", <<>>)
        hose_inch == Get(p, "hose_size_inch", <<>>)
        dash_norm == normalize_dash_code(dash)
        mm_from_inch == parse_inch_to_mm(hose_inch)
        mm_val == FloatOf(current_hose_mm)
    IN  IF DashKnown(dash_norm)
        THEN [mm |-> Lookup(DASH_TO_MM, dash_norm), source |-> "dash_code", data |-> dash_norm]
        ELSE IF hose_inch # <<>> /\ mm_from_inch # 0
        THEN [mm |-> mm_from_inch, source |-> "inch_conversion", data |-> hose_inch]
        ELSE IF current_hose_mm # <<>> /\ mm_val.ok
                /\ \E k \in 1..Len(DASH_TO_MM) : Abs(mm_val.val - DASH_TO_MM[k][2]) <= 200
        THEN [mm |-> mm_val.val, source |-> "validated_current", data |-> current_hose_mm]
        ELSE [mm |-> 0, source |-> "no_source", data |-> <<>>]

\* the codes of the SAE table
DashCodes == <<<<"2">>, <<"3">>, <<"4">>, <<"5">>, <<"6">>, <<"8">>, <<"1","0">>, <<"1","2">>, <<"1","6">>, <<"2","0">>, <<"2","4">>, <<"3","2">>, <<"4","0">>, <<"4","8">>>>

\* a code as the catalog writes it: "-10", "10", " -10", "- 10"
DashForms(code) ==
    { <<"-">> \o code, code, <<" ", "-">> \o code, <<"-", " ">> \o code }

\* dash_size values: every table code in every form, and some other cells
DashInputs ==
    UNION { DashForms(DashCodes[k]) : k \in 1..Len(DashCodes) }
    \cup { <<>>, <<"-","7">>, <<"-","0","4">>, <<"-","1","4">>, <<"M","1","6">> }

HoseMmInputs == { <<>>, <<"1","2",".","7">>, <<"9","9",".","0">> }
HoseInchInputs == { <<>>, <<"1","/","2">>, <<"7","/","1","6","\"">> }

-----------------------------------------------------------------------------
(* Hose product lists *)

\* Balflex hose records as BalflexParser writes them (one with the pressure in
\* bar, one without a pressure)
BalflexCatalog == <<
    [keys |-> {"reference", "dn", "working_pressure_mpa", "standard", "construction"},
     reference |-> <<"B","1">>, dn |-> <<"D","N","1","2">>,
     working_pressure_mpa |-> 2500, working_pressure_bar |-> 0,
     standard |-> <<"D","I","N"," ","E","N"," ","8","5","7"," ","2","S","C">>,
     construction |-> <<"2"," ","w","i","r","e"," ","b","r","a","i","d">>,
     inner_diameter_mm |-> 0],
    [keys |-> {"reference", "dn", "working_pressure_mpa", "standard", "construction", "inner_diameter_mm"},
     reference |-> <<"B","2">>, dn |-> <<"D","N","1","2">>,
     working_pressure_mpa |-> 1600, working_pressure_bar |-> 0,
     standard |-> <<"D","I","N"," ","E","N"," ","8","5","3"," ","1","S","N">>,
     construction |-> <<"1"," ","w","i","r","e"," ","b","r","a","i","d">>,
     inner_diameter_mm |-> 1270],
    [keys |-> {"reference", "dn", "working_pressure_mpa", "standard", "construction", "inner_diameter_mm"},
     reference |-> <<"B","3">>, dn |-> <<"D","N","1","2">>,
     working_pressure_mpa |-> 350, working_pressure_bar |-> 0,
     standard |-> <<"E","N"," ","8","5","4"," ","2","T","E">>,
     construction |-> <<"2"," ","t","e","x","t","i","l","e"," ","b","r","a","i","d">>,
     inner_diameter_mm |-> 1270],
    [keys |-> {"reference", "dn", "working_pressure_mpa", "standard", "construction", "inner_diameter_mm"},
     reference |-> <<"B","4">>, dn |-> <<"D","N","1","0">>,
     working_pressure_mpa |-> 4450, working_pressure_bar |-> 0,
     standard |-> <<"D","I","N"," ","E","N"," ","8","5","6"," ","4","S","P">>,
     construction |-> <<"s","p","i","r","a","l"," ","w","i","r","e">>,
     inner_diameter_mm |-> 950],
    [keys |-> {"reference", "dn", "standard", "construction"},
     reference |-> <<"B","5">>, dn |-> <<"D","N","1","6">>,
     working_pressure_mpa |-> 0, working_pressure_bar |-> 0,
     standard |-> <<"S","A","E"," ","1","0","0","R","1">>,
     construction |-> <<"1"," ","W","i","r","e"," ","B","r","a","i","d">>,
     inner_diameter_mm |-> 0],
    [keys |-> {"reference", "dn", "standard", "construction", "inner_diameter_mm"},
     reference |-> <<"B","6">>, dn |-> <<>>,
     working_pressure_mpa |-> 0, working_pressure_bar |-> 0,
     standard |-> <<>>,
     construction |-> <<"w","i","r","e"," ","b","r","a","i","d">>,
     inner_diameter_mm |-> 640],
    [keys |-> {"reference", "dn", "working_pressure_bar", "standard", "construction"},
     reference |-> <<"B","7">>, dn |-> <<"D","N","1","2">>,
     working_pressure_mpa |-> 0, working_pressure_bar |-> 25000,
     standard |-> <<"d","i","n"," ","e","n"," ","8","5","7"," ","2","s","c">>,
     construction |-> <<"2"," ","w","i","r","e"," ","b","r","a","i","d">>,
     inner_diameter_mm |-> 0],
    [keys |-> {"reference", "dn", "standard", "construction"},
     reference |-> <<"B","8">>, dn |-> <<"D","N","1","2">>,
     working_pressure_mpa |-> 0, working_pressure_bar |-> 0,
     standard |-> <<"D","I","N"," ","E","N"," ","8","5","7"," ","2","S","C">>,
     construction |-> <<"2"," ","w","i","r","e"," ","b","r","a","i","d">>,
     inner_diameter_mm |-> 0]
>>

\* Heizmann hose records as HeizmannScraper writes them (one with the pressure
\* in MPa; H8 is a variant with the attributes of H1)
HeizmannCatalog == <<
    [keys |-> {"reference", "dn", "working_pressure_bar", "standard", "construction"},
     reference |-> <<"H","1">>, dn |-> <<"D","N","1","2">>,
     working_pressure_mpa |-> 0, working_pressure_bar |-> 25000,
     standard |-> <<"D","I","N"," ","E","N"," ","8","5","7"," ","2","S","C">>,
     construction |-> <<"2"," ","w","i","r","e"," ","b","r","a","i","d">>,
     inner_diameter_mm |-> 0],
    [keys |-> {"reference", "dn", "working_pressure_bar", "standard", "construction"},
     reference |-> <<"H","8">>, dn |-> <<"D","N","1","2">>,
     working_pressure_mpa |-> 0, working_pressure_bar |-> 25000,
     standard |-> <<"D","I","N"," ","E","N"," ","8","5","7"," ","2","S","C">>,
     construction |-> <<"2"," ","w","i","r","e"," ","b","r","a","i","d">>,
     inner_diameter_mm |-> 0],
    [keys |-> {"reference", "dn", "working_pressure_bar", "standard", "construction", "inner_diameter_mm"},
     reference |-> <<"H","2">>, dn |-> <<"D","N","1","2">>,
     working_pressure_mpa |-> 0, working_pressure_bar |-> 16000,
     standard |-> <<"D","I","N"," ","E","N"," ","8","5","3"," ","1","S","N">>,
     construction |-> <<"1"," ","w","i","r","e"," ","b","r","a","i","d">>,
     inner_diameter_mm |-> 1270],
    [keys |-> {"reference", "dn", "working_pressure_bar", "standard", "construction", "inner_diameter_mm"},
     reference |-> <<"H","3">>, dn |-> <<"D","N","1","2">>,
     working_pressure_mpa |-> 0, working_pressure_bar |-> 3500,
     standard |-> <<"D","I","N"," ","E","N"," ","8","5","7"," ","2","T","E">>,
     construction |-> <<"2"," ","t","e","x","t","i","l","e"," ","b","r","a","i","d">>,
     inner_diameter_mm |-> 1290],
    [keys |-> {"reference", "dn", "working_pressure_bar", "standard", "construction", "inner_diameter_mm"},
     reference |-> <<"H","4">>, dn |-> <<"D","N","1","0">>,
     working_pressure_mpa |-> 0, working_pressure_bar |-> 42000,
     standard |-> <<"D","I","N"," ","E","N"," ","8","5","6"," ","4","S","P">>,
     construction |-> <<"s","p","i","r","a","l"," ","w","i","r","e">>,
     inner_diameter_mm |-> 950],
    [keys |-> {"reference", "dn", "working_pressure_bar", "standard", "construction"},
     reference |-> <<"H","5">>, dn |-> <<"D","N","1","6">>,
     working_pressure_mpa |-> 0, working_pressure_bar |-> 24000,
     standard |-> <<"S","A","E"," ","1","0","0","R","1","2">>,
     construction |-> <<"s","p","i","r","a","l"," ","w","i","r","e">>,
     inner_diameter_mm |-> 0],
    [keys |-> {"reference", "dn", "construction"},
     reference |-> <<"H","6">>, dn |-> <<"D","N","1","2">>,
     working_pressure_mpa |-> 0, working_pressure_bar |-> 0,
     standard |-> <<>>,
     construction |-> <<"w","i","r","e"," ","b","r","a","i","d">>,
     inner_diameter_mm |-> 0],
    [keys |-> {"reference", "dn", "working_pressure_mpa", "standard", "construction", "inner_diameter_mm"},
     reference |-> <<"H","7">>, dn |-> <<"D","N","1","0">>,
     working_pressure_mpa |-> 2100, working_pressure_bar |-> 0,
     standard |-> <<"S","A","E"," ","1","0","0","R","1">>,
     construction |-> <<"t","e","x","t","i","l","e">>,
     inner_diameter_mm |-> 690]
>>

\* a list in the opposite order
Reversed(list) == [k \in 1..Len(list) |-> list[Len(list) + 1 - k]]

\* up to MaxLen consecutive records of a catalog
Consecutive(catalog) ==
    { SubSeq(catalog, w[1], w[1] + w[2] - 1) :
        w \in { v \in (1..Len(catalog)) \X (0..MaxLen) :
                  v[1] + v[2] - 1 <= Len(catalog) } }

\* the lists a catalog file can hold here: up to MaxLen consecutive
\* records, in either order
Windows(catalog) ==
    Consecutive(catalog) \cup { Reversed(list) : list \in Consecutive(catalog) }

-----------------------------------------------------------------------------
(* ProductMatcher.match_products *)

HoseThreshold == 30

\* _score_to_quality with the tiers one step higher
_score_to_quality_Shifted(score) ==
    IF score > 90 THEN "Excellent Match"
    ELSE IF score >= 80 THEN "Good Match"
    ELSE IF score >= 60 THEN "Fair Match"
    ELSE "Possible Match"

\* _score_to_quality without the "Good Match" tier
_score_to_quality_NoGood(score) ==
    IF score >= 80 THEN "Excellent Match"
    ELSE IF score >= 40 THEN "Fair Match"
    ELSE "Possible Match"

\* ProductMatcher._score_to_quality
_score_to_quality(score) ==
    IF score >= 80 THEN "Excellent Match"
    ELSE IF score >= 60 THEN "Good Match"
    ELSE IF score >= 40 THEN "Fair Match"
    ELSE "Possible Match"

\* x or y, for strings
StrOr(x, y) == IF x # <<>> THEN x ELSE y

\* ProductMatcher._create_match_entry (identifiers, score, quality, reasons
\* and the shared dn / standard / construction)
_create_match_entry(balflex, heizmann, score, reasons) ==
    [match_score |-> score,
     match_quality |-> _score_to_quality(score),
     match_reasons |-> reasons,
     balflex_reference |-> Get(balflex, "reference", <<>>),
     heizmann_reference |-> Get(heizmann, "reference", <<>>),
     dn |-> StrOr(Get(balflex, "dn", <<>>), Get(heizmann, "dn", <<>>)),
     standard |-> StrOr(Get(balflex, "standard", <<>>), Get(heizmann, "standard", <<>>)),
     construction |-> StrOr(Get(balflex, "construction", <<>>),
                            Get(heizmann, "construction", <<>>))]

\* HoseBetter that also replaces the best candidate on an equal score
HoseBetter_OrEqual(score, best_score) == score >= best_score

\* "if score > best_score" of the inner loop
HoseBetter(score, best_score) == score > best_score

\* the body of the inner loop for target j, r being (score, reasons);
\* best_match is an index into the list, 0 for None
HoseKeep(best, j, r) ==
    IF HoseBetter(r.score, best.best_score)
    THEN [best_match |-> j, best_score |-> r.score, best_reasons |-> r.reasons]
    ELSE best

\* the inner loop "for heizmann in self.heizmann_products" from index j on
RECURSIVE HoseScan(_, _, _, _)
HoseScan(balflex, targets, j, best) ==
    IF j > Len(targets) THEN best
    ELSE HoseScan(balflex, targets, j + 1,
                  HoseKeep(best, j, _calculate_match_score(balflex, targets[j])))

\* "if best_match and best_score >= 30"
HoseAccept(best) == best.best_match # 0 /\ best.best_score >= HoseThreshold

\* HoseEmit that lets a target record be claimed by one source only
HoseEmit_Once(acc, balflex, targets, best) ==
    IF HoseAccept(best)
       /\ \A k \in 1..Len(acc) :
             acc[k].heizmann_reference # targets[best.best_match].reference
    THEN Append(acc, _create_match_entry(balflex, targets[best.best_match],
                                         best.best_score, best.best_reasons))
    ELSE acc

\* "self.matches.append(match)" for an accepted best match
HoseEmit(acc, balflex, targets, best) ==
    IF HoseAccept(best)
    THEN Append(acc, _create_match_entry(balflex, targets[best.best_match],
                                         best.best_score, best.best_reasons))
    ELSE acc

\* the outer loop "for balflex in self.balflex_products" from index i on,
\* appending to the list acc
RECURSIVE HoseLoop(_, _, _, _)
HoseLoop(sources, targets, i, acc) ==
    IF i > Len(sources) THEN acc
    ELSE HoseLoop(sources, targets, i + 1,
                  HoseEmit(acc, sources[i], targets,
                           HoseScan(sources[i], targets, 1,
                               [best_match |-> 0, best_score |-> 0,
                                best_reasons |-> <<>>])))

-----------------------------------------------------------------------------
(* match_products of match_pressarmaturen_WITH_SERIES.py *)

ZeroCounts == [angle_mismatch |-> 0, series_mismatch |-> 0,
               standard_mismatch |-> 0, low_score |-> 0]

\* TrackRejection that books a series rejection under angle_mismatch
TrackRejection_SeriesAsAngle(counts, r) ==
    IF r.score = 0 /\ r.warnings # <<>>
    THEN IF r.warnings[1] \in {"ANGLE MISMATCH", "SERIES MISMATCH"}
         THEN [counts EXCEPT !.angle_mismatch = @ + 1]
         ELSE IF r.warnings[1] = "STANDARD MISMATCH"
         THEN [counts EXCEPT !.standard_mismatch = @ + 1]
         ELSE counts
    ELSE counts

\* "Track rejections": if score == 0 and warnings, by the first warning
TrackRejection(counts, r) ==
    IF r.score = 0 /\ r.warnings # <<>>
    THEN IF r.warnings[1] = "ANGLE MISMATCH"
         THEN [counts EXCEPT !.angle_mismatch = @ + 1]
         ELSE IF r.warnings[1] = "SERIES MISMATCH"
         THEN [counts EXCEPT !.series_mismatch = @ + 1]
         ELSE IF r.warnings[1] = "STANDARD MISMATCH"
         THEN [counts EXCEPT !.standard_mismatch = @ + 1]
         ELSE counts
    ELSE counts

\* FitBetter that excludes a score equal to the threshold
FitBetter_Strict(score, best_score, threshold) == score > best_score /\ score > threshold

\* "if score > best_score and score >= min_threshold"
FitBetter(score, best_score, threshold) == score > best_score /\ score >= threshold

\* the body of the inner loop for target j, r being (score, reasons, warnings)
FitKeep(st, threshold, j, r) ==
    IF FitBetter(r.score, st.best_score, threshold)
    THEN [best_match |-> j, best_score |-> r.score,
          best_reasons |-> r.reasons, counts |-> TrackRejection(st.counts, r)]
    ELSE [st EXCEPT !.counts = TrackRejection(st.counts, r)]

\* the inner loop "for balflex_item in balflex_data" from index j on
RECURSIVE FitScan(_, _, _, _, _)
FitScan(heizmann_item, targets, threshold, j, st) ==
    IF j > Len(targets) THEN st
    ELSE FitScan(heizmann_item, targets, threshold, j + 1,
                 FitKeep(st, threshold, j,
                         calculate_match_score(heizmann_item, targets[j])))

\* "Determine match quality"
FitQuality(best_score) ==
    IF best_score >= 90 THEN "Excellent"
    ELSE IF best_score >= 75 THEN "Very Good"
    ELSE IF best_score >= 60 THEN "Good"
    ELSE "Fair"

\* the dict appended to matches (identifiers, gated fields, match info)
FitMatchEntry(heizmann_item, best_match, best_score, best_reasons) ==
    [Heizmann_Reference |-> heizmann_item.reference,
     Heizmann_Angle |-> Get(heizmann_item, "angle", ""),
     Heizmann_Series |-> Get(heizmann_item, "series", ""),
     Heizmann_Standard |-> Get(heizmann_item, "standard", <<>>),
     Balflex_Reference |-> best_match.reference,
     Balflex_Angle |-> Get(best_match, "angle", ""),
     Balflex_Series |-> Get(best_match, "series", ""),
     Balflex_Standard |-> Get(best_match, "standard", <<>>),
     Match_Score |-> best_score,
     Match_Quality |-> FitQuality(best_score),
     Match_Reasons |-> best_reasons]

\* "if best_match: matches.append(...) else: rejected_counts['low_score'] += 1"
FitEmit(out, heizmann_item, targets, st) ==
    IF st.best_match # 0
    THEN [matches |-> Append(out.matches,
                             FitMatchEntry(heizmann_item, targets[st.best_match],
                                           st.best_score, st.best_reasons)),
          rejected_counts |-> st.counts]
    ELSE [matches |-> out.matches,
          rejected_counts |-> [st.counts EXCEPT !.low_score = @ + 1]]

\* the outer loop "for heizmann_item in heizmann_data" from index i on
RECURSIVE FitLoop(_, _, _, _, _)
FitLoop(sources, targets, threshold, i, out) ==
    IF i > Len(sources) THEN out
    ELSE FitLoop(sources, targets, threshold, i + 1,
                 FitEmit(out, sources[i], targets,
                         FitScan(sources[i], targets, threshold, 1,
                             [best_match |-> 0, best_score |-> 0,
                              best_reasons |-> <<>>,
                              counts |-> out.rejected_counts])))

\* match_products(heizmann_data, balflex_data, min_threshold)
fit_match_products(sources, targets, threshold) ==
    FitLoop(sources, targets, threshold, 1,
            [matches |-> <<>>, rejected_counts |-> ZeroCounts])

\* min_threshold arguments: the default 60 and values at and next to scores
Thresholds == {0, 25, 60, 67, 68}

-----------------------------------------------------------------------------
(* The record extractors.  A table is a sequence of rows, a row is a       *)
(* sequence of cells, and a cell is a string or None.                      *)

MaxRows == 2     \* most data rows of a table handed to an extractor

\* the cell None of a pdfplumber table
NoneCell == <<"<None>">>

\* str(cell)
str(cell) == IF cell = NoneCell THEN <<"N","o","n","e">> ELSE cell

\* "if cell"
Truthy(cell) == cell # NoneCell /\ cell # <<>>

IsWhite(c) == c \in {" ", "\n", "\t"}

\* str.strip()
RECURSIVE lstrip(_)
lstrip(s) == IF s # <<>> /\ IsWhite(Head(s)) THEN lstrip(Tail(s)) ELSE s
RECURSIVE rstrip(_)
rstrip(s) ==
    IF s # <<>> /\ IsWhite(s[Len(s)]) THEN rstrip(SubSeq(s, 1, Len(s) - 1)) ELSE s
strip(s) == rstrip(lstrip(s))

\* str.replace(a, b) for one-character a and b
ReplaceChar(s, a, b) == [i \in 1..Len(s) |-> IF s[i] = a THEN b ELSE s[i]]

\* str.isdigit()
isdigit(s) == s # <<>> /\ \A i \in 1..Len(s) : IsDigit(s[i])

\* ' '.join(list)
RECURSIVE JoinSpace(_)
JoinSpace(list) ==
    IF list = <<>> THEN <<>>
    ELSE IF Len(list) = 1 THEN list[1]
    ELSE list[1] \o <<" ">> \o JoinSpace(Tail(list))

\* ' '.join([str(cell) for cell in row if cell])
RowText(row) == JoinSpace(SelectSeq(row, Truthy))

\* the text of the rows table[:n]
TableText(table, n) ==
    JoinSpace([k \in 1..(IF Len(table) < n THEN Len(table) ELSE n) |-> RowText(table[k])])

\* dict[key] = val when cond holds
With(d, cond, key, val) ==
    IF cond THEN [d EXCEPT !.keys = @ \cup {key}, ![key] = val] ELSE d

-----------------------------------------------------------------------------
(* BalflexPDFParser of Hose_Scraping/scripts/balflex_pdf_parser.py *)

\* _clean_cell
_clean_cell(cell) ==
    IF cell = NoneCell THEN <<>> ELSE ReplaceChar(strip(str(cell)), "\n", " ")

\* r'(\d+\.?\d*)': the end of the match that starts at the digit at i
NumberTail(s, j) == IF j <= Len(s) /\ s[j] = "." THEN SkipDigits(s, j + 1) ELSE j
NumberEnd(s, i) == NumberTail(s, SkipDigits(s, i))
DigitAt(s, i) == IsDigit(s[i])

\* float() of the first number of text, i being the position of its first digit
FirstNumber(text, i) ==
    IF i = 0 THEN [ok |-> FALSE, val |-> 0]
    ELSE FloatOf(SubSeq(text, i, NumberEnd(text, i) - 1))
FirstNumberOf(text) == FirstNumber(text, FirstPos(text, DigitAt))

\* _extract_float, None being ok = FALSE
_extract_float(cell) ==
    IF cell = NoneCell THEN [ok |-> FALSE, val |-> 0]
    ELSE FirstNumberOf(ReplaceChar(strip(str(cell)), ",", "."))

\* wp_cell.split()[0]
RECURSIVE TakeWord(_)
TakeWord(s) ==
    IF s = <<>> \/ IsWhite(Head(s)) THEN <<>> ELSE <<Head(s)>> \o TakeWord(Tail(s))
FirstWord(s) == TakeWord(lstrip(s))

\* "wp_cell.split()[0] if ' ' in wp_cell else wp_cell" raises IndexError
\* on a cell of whitespace
WpRaises(wp_cell) == Contains(<<" ">>, wp_cell) /\ strip(wp_cell) = <<>>
WpArg(wp_cell) == IF Contains(<<" ">>, wp_cell) THEN FirstWord(wp_cell) ELSE wp_cell

\* r'DN\s*(\d+)' matches at i
DnDigitsAt(s, i) ==
    /\ StartsAt(s, i, <<"D","N">>)
    /\ SkipSpaces(s, i + 2) <= Len(s)
    /\ IsDigit(s[SkipSpaces(s, i + 2)])

\* the value stored under 'dn', i being the position of the regex match
\* in dn.upper() (0 for no match); empty when nothing is stored
PdfDnAt(dn, u, i) ==
    IF i # 0
    THEN <<"D","N">> \o SubSeq(u, SkipSpaces(u, i + 2), SkipDigits(u, SkipSpaces(u, i + 2)) - 1)
    ELSE IF isdigit(dn) THEN <<"D","N">> \o dn
    ELSE <<>>
PdfDn(dn) == IF dn = <<>> THEN <<>> ELSE PdfDnAt(dn, upper(dn), FirstPos(upper(dn), DnDigitsAt))

\* BalflexPDFParser._determine_construction
pdf_determine_construction(model_name, standard) ==
    LET combined == upper(model_name \o <<" ">> \o standard) IN
    IF Contains(<<"4","S","P">>, combined) \/ Contains(<<"4","S","H">>, combined)
       \/ Contains(<<"S","P","I","R","A","L">>, combined) THEN <<"s","p","i","r","a","l"," ","w","i","r","e">>
    ELSE IF Contains(<<"R","1","2">>, combined) \/ Contains(<<"R","1","3">>, combined)
            \/ Contains(<<"R","1","5">>, combined) THEN <<"s","p","i","r","a","l"," ","w","i","r","e">>
    ELSE IF Contains(<<"2","S","C">>, combined) \/ Contains(<<"2","S","N">>, combined) THEN <<"2"," ","w","i","r","e"," ","b","r","a","i","d">>
    ELSE IF Contains(<<"1","S","C">>, combined) \/ Contains(<<"1","S","N">>, combined) THEN <<"1"," ","w","i","r","e"," ","b","r","a","i","d">>
    ELSE IF Contains(<<"T","E","X","T","I","L","E">>, combined) \/ Contains(<<"T","E","X","M","A","S","T","E","R">>, combined)
    THEN <<"t","e","x","t","i","l","e"," ","b","r","a","i","d">>
    ELSE <<"w","i","r","e"," ","b","r","a","i","d">>

\* "product = {'supplier': 'Balflex', 'model': model_name}"
NewPdfProduct(model_name) ==
    [keys |-> {"supplier", "model"}, supplier |-> <<"B","a","l","f","l","e","x">>, model |-> model_name,
     reference |-> <<>>, article_number |-> <<>>, dn |-> <<>>, inch_size |-> <<>>,
     inner_diameter_mm |-> 0, outer_diameter_mm |-> 0, working_pressure_mpa |-> 0,
     burst_pressure_mpa |-> 0, standard |-> <<>>, construction |-> <<>>]

\* the value None returned for a row that yields no product
NoRecord == [NewPdfProduct(<<>>) EXCEPT !.keys = {}, !.supplier = <<>>]

\* "if text: product[key] = text" and "if number: product[key] = number"
PdfText(d, key, text) == With(d, text # <<>>, key, text)
PdfFloat(d, key, f) == With(d, f.ok /\ f.val # 0, key, f.val)

\* row[8] where "col_indices['burst_pressure'] < len(row)"
BurstCell(row) == IF Len(row) >= 9 THEN row[9] ELSE NoneCell

\* the product dict filled from a row of at least eight cells
PdfRowProduct(row, model_name, standard) ==
    With(
     PdfText(
      PdfFloat(
       PdfFloat(
        PdfFloat(
         PdfFloat(
          PdfText(
           PdfText(
            PdfText(
             PdfText(NewPdfProduct(model_name),
                     "reference", _clean_cell(row[1])),
             "article_number", _clean_cell(row[2])),
            "dn", PdfDn(_clean_cell(row[3]))),
           "inch_size", _clean_cell(row[4])),
          "inner_diameter_mm", _extract_float(row[6])),
         "outer_diameter_mm", _extract_float(row[7])),
        "working_pressure_mpa", _extract_float(WpArg(str(row[8])))),
       "burst_pressure_mpa", _extract_float(BurstCell(row))),
      "standard", standard),
     TRUE, "construction", pdf_determine_construction(model_name, standard))

\* "if product.get('dn') and product.get('article_number'): return product"
PdfAccept(p) ==
    IF Get(p, "dn", <<>>) # <<>> /\ Get(p, "article_number", <<>>) # <<>>
    THEN p ELSE NoRecord

\* BalflexPDFParser._extract_product_from_row: the product, NoRecord for
\* None, or raised for the IndexError of the working pressure cell
_extract_product_from_row(row, model_name, standard) ==
    IF Len(row) < 8 THEN [raised |-> FALSE, product |-> NoRecord]
    ELSE IF WpRaises(str(row[8])) THEN [raised |-> TRUE, product |-> NoRecord]
    ELSE [raised |-> FALSE, product |-> PdfAccept(PdfRowProduct(row, model_name, standard))]

\* "Skip rows that look like headers", first_cell being upper-cased
PdfHeaderLike(first_cell) == Contains(<<"R","E","F","E","R","E","N","C","E">>, first_cell) \/ first_cell = <<>>
PdfSkipRow(row) ==
    \/ Len(row) < 3
    \/ PdfHeaderLike(IF Truthy(row[1]) THEN upper(str(row[1])) ELSE <<>>)

\* the loop "for row in table[data_start_row:]" from row k on; an
\* exception of a row leaves _parse_product_table
RECURSIVE PdfRows(_, _, _, _, _)
PdfRowStep(table, k, model_name, standard, products, r) ==
    IF r.raised THEN [raised |-> TRUE, products |-> <<>>]
    ELSE PdfRows(table, k + 1, model_name, standard,
                 IF r.product.keys # {} THEN Append(products, r.product) ELSE products)
PdfRows(table, k, model_name, standard, products) ==
    IF k > Len(table) THEN [raised |-> FALSE, products |-> products]
    ELSE IF PdfSkipRow(table[k]) THEN PdfRows(table, k + 1, model_name, standard, products)
    ELSE PdfRowStep(table, k, model_name, standard, products,
                    _extract_product_from_row(table[k], model_name, standard))

\* "if not (has_reference and has_dn): return products", all_text being upper-cased
PdfIsProductTable(all_text) ==
    Contains(<<"R","E","F","E","R","E","N","C","E">>, all_text) /\ Contains(<<"D","N">>, all_text)

\* BalflexPDFParser._parse_product_table
_parse_product_table(table, model_name, standard) ==
    IF Len(table) < 2 THEN [raised |-> FALSE, products |-> <<>>]
    ELSE IF ~PdfIsProductTable(upper(TableText(table, 5)))
    THEN [raised |-> FALSE, products |-> <<>>]
    ELSE PdfRows(table, 3, model_name, standard, <<>>)

\* header rows of catalog tables: a product table, one without a DN
\* column, one without a REFERENCE column, and a table of technical data
PdfHeaders == {
    << <<<<"R","E","F","E","R","E","N","C","E">>, <<"#">>, <<"H","O","S","E"," ","S","I","Z","E">>>>, <<NoneCell, NoneCell, <<"D","N">>, <<"i","n","c","h">>>> >>,
    << <<<<"R","E","F","E","R","E","N","C","E">>, <<"#">>, <<"T","H","R","E","A","D">>>>, <<NoneCell, NoneCell, <<"m","m">>, <<"i","n","c","h">>>> >>,
    << <<<<"P","A","R","T">>, <<"#">>, <<"H","O","S","E"," ","S","I","Z","E">>>>, <<NoneCell, NoneCell, <<"D","N">>, <<"i","n","c","h">>>> >>,
    << <<<<"T","E","C","H","N","I","C","A","L"," ","D","A","T","A">>>>, <<<<"t","e","m","p","e","r","a","t","u","r","e">>, <<"-","4","0"," ","+","1","0","0">>>> >> }

\* data rows: two product rows, a row without article number, a row
\* without DN, a short row, a row with a blank working pressure cell
PdfDataRows == {
    <<<<"4","S","P","-","0","4","-","F">>, <<"1","0",".","1","0","0","8",".","0","4","F">>, <<"D","N","6">>, <<"1","/","4","\"">>, <<"-","4">>, <<"6",".","5">>, <<"1","7",",","4">>,
      <<"4","5",",","0"," ","6","6","0","0">>, <<"1","8","0",",","0">>, <<"2","6","4","0","0">>, <<"1","5","0">>, <<"0",",","7","0">>>>,
    <<<<"2","S","N","-","0","8">>, <<"1","0",".","1","0","0","4",".","0","8">>, <<"1","2">>, <<"1","/","2","\"">>, <<"-","8">>, <<"1","2",",","7">>, <<"2","0",",","6">>, <<"2","7",",","5">>>>,
    <<<<"2","S","N","-","1","0">>, NoneCell, <<"D","N","1","6">>, <<"5","/","8","\"">>, <<"-","1","0">>, <<"1","5",",","9">>, <<"2","3",",","7">>, <<"2","5",",","0"," ","3","6","2","5">>>>,
    <<<<"R","1","A","T","-","0","6">>, <<"1","0",".","1","0","0","1",".","0","6">>, <<"-">>, <<"3","/","8","\"">>, <<"-","6">>, <<"9",",","5">>, <<"1","7",",","4">>, <<"1","8",",","0">>>>,
    <<<<"4","S","P","-","0","4","-","F">>, <<"1","0",".","1","0","0","8",".","0","4","F">>, <<"D","N","6">>>>,
    <<<<"4","S","P","-","0","6","-","F">>, <<>>, <<"D","N","1","0">>, <<"3","/","8","\"">>, <<"-","6">>, <<"9",".","5">>, <<"2","1",",","4">>, <<" ">>>> }

\* the sequences of 1..n rows
RECURSIVE RowsUpTo(_, _)
RowsUpTo(rows, n) ==
    IF n = 0 THEN {}
    ELSE { <<r>> : r \in rows }
         \cup { Append(list, r) : list \in RowsUpTo(rows, n - 1), r \in rows }

\* the tables handed to _parse_product_table, and the (model, standard) of the page
PdfTables == { h \o rows : h \in PdfHeaders, rows \in RowsUpTo(PdfDataRows, MaxRows) }
PdfModels == { <<<<"B","A","L","M","A","S","T","E","R"," ","4","S","P">>, <<"D","I","N"," ","E","N"," ","8","5","6"," ","4","S","P">>>>, <<<<"P","O","W","E","R","S","P","I","R"," ","R","1","2">>, <<>>>> }

-----------------------------------------------------------------------------
(* BalflexFittingsParser of scripts/balflex_fittings_parser.py *)

\* r'\d{2}\.\d{3,4}\.\d{2,4}' matches at i
DigitsAt(s, i, n) == i + n - 1 <= Len(s) /\ \A k \in i..(i + n - 1) : IsDigit(s[k])
CharAt(s, i, c) == i <= Len(s) /\ s[i] = c
ArticleAt(s, i) ==
    /\ i >= 1
    /\ DigitsAt(s, i, 2)
    /\ CharAt(s, i + 2, ".")
    /\ \/ DigitsAt(s, i + 3, 3) /\ CharAt(s, i + 6, ".") /\ DigitsAt(s, i + 7, 2)
       \/ DigitsAt(s, i + 3, 4) /\ CharAt(s, i + 7, ".") /\ DigitsAt(s, i + 8, 2)

\* re.match(r'\d{2}\.\d{3,4}\.\d{2,4}[A-Z]?', cell)
IsArticle(cell) == ArticleAt(cell, 1)

\* re.match(r'-\s*\d+', cell)
IsDash(cell) ==
    /\ CharAt(cell, 1, "-")
    /\ SkipSpaces(cell, 2) <= Len(cell)
    /\ IsDigit(cell[SkipSpaces(cell, 2)])

\* re.match(r'\d+[\.,]\d+$', cell), j being the end of the leading digits
DecimalFrom(cell, j) ==
    /\ j > 1
    /\ j <= Len(cell)
    /\ cell[j] \in {".", ","}
    /\ j < Len(cell)
    /\ SkipDigits(cell, j + 1) = Len(cell) + 1
IsDecimal(cell) == DecimalFrom(cell, SkipDigits(cell, 1))

\* "... and float(cell.replace(',', '.')) < 100"
IsHoseMm(cell) == IsDecimal(cell) /\ FloatOf(ReplaceChar(cell, ",", ".")).val < 10000

\* re.match(r'\d+/\d+"|\d+\.\d+/\d+"', cell), j being the end of the leading digits
FractionFrom(cell, j) ==
    /\ j > 1
    /\ CharAt(cell, j, "/")
    /\ SkipDigits(cell, j + 1) > j + 1
    /\ CharAt(cell, SkipDigits(cell, j + 1), "\"")
MixedFrom(cell, j) ==
    /\ j > 1
    /\ CharAt(cell, j, ".")
    /\ SkipDigits(cell, j + 1) > j + 1
    /\ FractionFrom(cell, SkipDigits(cell, j + 1))
IsInch(cell) ==
    FractionFrom(cell, SkipDigits(cell, 1)) \/ MixedFrom(cell, SkipDigits(cell, 1))

\* str.replace('"', '')
RECURSIVE RemoveChar(_, _)
RemoveChar(s, c) ==
    IF s = <<>> THEN <<>>
    ELSE IF Head(s) = c THEN RemoveChar(Tail(s), c)
    ELSE <<Head(s)>> \o RemoveChar(Tail(s), c)

\* the last cell that satisfies Is, or '' : "for cell in cells: if ...: x = cell"
LastCell(cells, Is(_)) ==
    IF \E k \in 1..Len(cells) : Is(cells[k])
    THEN cells[CHOOSE k \in 1..Len(cells) :
                  Is(cells[k]) /\ \A m \in (k + 1)..Len(cells) : ~Is(cells[m])]
    ELSE <<>>

\* "Determine thread type from category", category being upper-cased
FittingThreadType(category) ==
    IF Contains(<<"J","I","C">>, category) THEN <<"J","I","C"," ","3","7","°">>
    ELSE IF Contains(<<"O","R","F","S">>, category) THEN <<"O","R","F","S">>
    ELSE IF Contains(<<"B","S","P">>, category) THEN <<"B","S","P">>
    ELSE IF Contains(<<"N","P","T">>, category) THEN <<"N","P","T">>
    ELSE IF Contains(<<"M","E","T","R","I","C">>, category) THEN <<"M","e","t","r","i","c">>
    ELSE <<>>

\* "Determine connection type", category being upper-cased
FittingConnectionType(category) ==
    IF Contains(<<"F","E","R","R","U","L","E">>, category) THEN <<"F","e","r","r","u","l","e">>
    ELSE IF Contains(<<"E","L","B","O","W">>, category) THEN <<"E","l","b","o","w">>
    ELSE IF Contains(<<"T","E","E">>, category) THEN <<"T","e","e">>
    ELSE IF Contains(<<"A","D","A","P","T","E","R">>, category) THEN <<"A","d","a","p","t","e","r">>
    ELSE IF Contains(<<"F","L","A","N","G","E">>, category) THEN <<"F","l","a","n","g","e">>
    ELSE <<>>

\* the dict returned for a row with a reference
FittingProduct(category, reference, dash_size, hose_mm, hose_inch) ==
    [keys |-> {"supplier", "category", "reference", "article_number", "dash_size",
               "hose_size_mm", "hose_size_inch", "thread_type", "connection_type"},
     supplier |-> <<"B","a","l","f","l","e","x">>, category |-> category,
     reference |-> reference, article_number |-> reference,
     dash_size |-> dash_size, hose_size_mm |-> hose_mm, hose_size_inch |-> hose_inch,
     thread_type |-> FittingThreadType(upper(category)),
     connection_type |-> FittingConnectionType(upper(category))]

\* the value None of _extract_from_row
NoFitting == [FittingProduct(<<>>, <<>>, <<>>, <<>>, <<>>) EXCEPT !.keys = {}, !.supplier = <<>>]

\* "cells = [str(cell).strip() if cell else '' for cell in row]"
FittingCells(row) ==
    [k \in 1..Len(row) |-> IF Truthy(row[k]) THEN strip(str(row[k])) ELSE <<>>]

\* "Must have at least reference"
FittingFromCells(cells, category, reference) ==
    IF reference = <<>> THEN NoFitting
    ELSE FittingProduct(category, reference,
                        strip(LastCell(cells, IsDash)),
                        ReplaceChar(LastCell(cells, IsHoseMm), ",", "."),
                        strip(RemoveChar(LastCell(cells, IsInch), "\"")))

\* BalflexFittingsParser._extract_from_row
_extract_from_row(row, category) ==
    FittingFromCells(FittingCells(row), category, LastCell(FittingCells(row), IsArticle))

\* "Find header row (contains REFERENCE or dash)"
IsHeaderRow(row) ==
    Contains(<<"R","E","F","E","R","E","N","C","E">>, upper(RowText(row))) \/ Contains(<<"d","a","s","h">>, lower(RowText(row)))
header_row(table) ==
    IF \E i \in 1..Len(table) : i <= 5 /\ IsHeaderRow(table[i])
    THEN CHOOSE i \in 1..Len(table) :
            i <= 5 /\ IsHeaderRow(table[i]) /\ \A k \in 1..(i - 1) : ~IsHeaderRow(table[k])
    ELSE 1

\* "if not row or len(row) < 3: continue" and "Skip empty rows"
FittingSkipRow(row) ==
    \/ Len(row) < 3
    \/ \A k \in 1..Len(row) : row[k] = NoneCell \/ strip(str(row[k])) = <<>>

\* the loop "for row in table[header_row + 1:]" from row k on
RECURSIVE FittingRows(_, _, _, _)
FittingRowStep(table, k, category, products, p) ==
    FittingRows(table, k + 1, category,
                IF p.keys # {} THEN Append(products, p) ELSE products)
FittingRows(table, k, category, products) ==
    IF k > Len(table) THEN products
    ELSE IF FittingSkipRow(table[k]) THEN FittingRows(table, k + 1, category, products)
    ELSE FittingRowStep(table, k, category, products, _extract_from_row(table[k], category))

\* BalflexFittingsParser._parse_table
_parse_table(table, category) == FittingRows(table, header_row(table) + 1, category, <<>>)

\* BalflexFittingsParser._extract_category, text being upper-cased
categories == <<<<"F","e","r","r","u","l","e">>, <<"J","I","C"," ","3","7">>, <<"O","R","F","S">>, <<"F","l","a","n","g","e">>, <<"B","S","P">>, <<"N","P","T">>,
                <<"M","e","t","r","i","c">>, <<"A","d","a","p","t","e","r">>, <<"E","l","b","o","w">>, <<"T","e","e">>, <<"C","r","o","s","s">>>>
_extract_category(text) ==
    IF \E k \in 1..Len(categories) : Contains(upper(categories[k]), text)
    THEN categories[CHOOSE k \in 1..Len(categories) :
                       /\ Contains(upper(categories[k]), text)
                       /\ \A m \in 1..(k - 1) : ~Contains(upper(categories[m]), text)]
    ELSE <<"F","i","t","t","i","n","g">>

\* page.extract_text(): the title of the page and the text of its tables
PageText(page) ==
    strip(page.title \o <<" ">>
          \o JoinSpace([t \in 1..Len(page.tables) |->
                           TableText(page.tables[t], Len(page.tables[t]))]))

\* "for table in tables" from table t on
RECURSIVE PageTables(_, _, _, _)
PageTables(tables, t, category, products) ==
    IF t > Len(tables) THEN products
    ELSE IF Len(tables[t]) < 2 THEN PageTables(tables, t + 1, category, products)
    ELSE PageTables(tables, t + 1, category,
                    products \o _parse_table(tables[t], category))

\* the page is searched: it has an article number or the word REFERENCE
PageHasProducts(text) ==
    (\E i \in 1..Len(text) : ArticleAt(text, i)) \/ Contains(<<"R","E","F","E","R","E","N","C","E">>, text)

\* BalflexFittingsParser._parse_page: the products it adds to self.products
ParsedPage(page, text) ==
    IF text = <<>> THEN <<>>
    ELSE IF ~PageHasProducts(text) THEN <<>>
    ELSE PageTables(page.tables, 1, _extract_category(upper(text)), <<>>)
_parse_page(page) == ParsedPage(page, PageText(page))

\* header rows of fittings tables: a product table and a table of notes
FittingHeaders == { <<<<"R","E","F","E","R","E","N","C","E">>, <<"d","a","s","h">>, <<"m","m">>, <<"i","n","c","h">>, <<"T","h","r","e","a","d">>>>,
                    <<<<"I","t","e","m">>, <<"T","h","r","e","a","d">>, <<"N","o","t","e","s">>>> }

\* data rows: a product row, a row with an article number and no size,
\* a row with sizes and no article number, an empty row, a row of text
FittingDataRows == {
    <<<<"2","0",".","2","0","4",".","0","3">>, <<"-","4">>, <<"6",",","4">>, <<"1","/","4","\"">>, <<"M","1","2","x","1",".","5">>>>,
    <<<<"2","3",".","1","2","3","4",".","0","4","1","2">>, <<"M","1","4","x","1",".","5">>, <<"1","9">>>>,
    <<<<"-","6">>, <<"9",",","5">>, <<"3","/","8","\"">>>>,
    <<NoneCell, <<>>, <<" ">>>>,
    <<<<"s","e","e"," ","p","a","g","e"," ","1","2">>, <<"n","/","a">>, <<"n","/","a">>>> }

FittingTitles == { <<"J","I","C"," ","3","7"," ","F","e","m","a","l","e"," ","S","w","i","v","e","l">>, <<"G","e","n","e","r","a","l"," ","i","n","f","o","r","m","a","t","i","o","n">> }

\* the pages handed to _parse_page: a blank page and pages with one table
FittingPages ==
    { [title |-> <<>>, tables |-> <<>>] }
    \cup { [title |-> t, tables |-> << <<h>> \o rows >>] :
              t \in FittingTitles, h \in FittingHeaders,
              rows \in RowsUpTo(FittingDataRows, MaxRows) }

-----------------------------------------------------------------------------
(* HeizmannScraper of Hose_Scraping/scripts/heizmann_scraper.py *)

\* model_to_standard, in the order of the dict literal
model_to_standard == <<
    <<<<"1","S","N">>, <<"D","I","N"," ","E","N"," ","8","5","3"," ","1","S","N">>>>,
    <<<<"2","S","N">>, <<"D","I","N"," ","E","N"," ","8","5","3"," ","2","S","N">>>>,
    <<<<"1","S","C">>, <<"D","I","N"," ","E","N"," ","8","5","3"," ","1","S","C">>>>,
    <<<<"2","S","C">>, <<"D","I","N"," ","E","N"," ","8","5","3"," ","2","S","C">>>>,
    <<<<"2","T","E">>, <<"D","I","N"," ","E","N"," ","8","5","7"," ","2","T","E">>>>,
    <<<<"1","T","E">>, <<"D","I","N"," ","E","N"," ","8","5","7"," ","1","T","E">>>>,
    <<<<"3","T","E">>, <<"D","I","N"," ","E","N"," ","8","5","7"," ","3","T","E">>>>,
    <<<<"4","S","P">>, <<"D","I","N"," ","E","N"," ","8","5","6"," ","4","S","P">>>>,
    <<<<"4","S","H">>, <<"D","I","N"," ","E","N"," ","8","5","6"," ","4","S","H">>>>,
    <<<<"3","S","P","T">>, <<"D","I","N"," ","E","N"," ","8","5","6"," ","3","S","P","T">>>>,
    <<<<"A","T","3">>, <<"S","A","E"," ","1","0","0","R","3">>>>,
    <<<<"A","T","7">>, <<"S","A","E"," ","1","0","0","R","7">>>>,
    <<<<"A","T","8">>, <<"S","A","E"," ","1","0","0","R","8">>>>,
    <<<<"C","O","M","P">>, <<"D","I","N"," ","E","N"," ","8","5","3">>>>,
    <<<<"U","L","T","R","A">>, <<"D","I","N"," ","E","N"," ","8","5","3">>>>,
    <<<<"F","L","P","2">>, <<"S","A","E"," ","1","0","0","R","2">>>>,
    <<<<"A","L","F","A","B","I","O","T","E","C","H","4","K">>, <<"D","I","N"," ","E","N"," ","8","5","6"," ","4","S","P">>>>,
    <<<<"A","L","F","A","B","I","O","T","E","C","H","6","K">>, <<"D","I","N"," ","E","N"," ","8","5","6"," ","4","S","H">>>>,
    <<<<"A","L","F","A","B","I","O","T","E","C","H","5","K">>, <<"D","I","N"," ","E","N"," ","8","5","6"," ","4","S","P">>>>,
    <<<<"R","1">>, <<"S","A","E"," ","1","0","0","R","1">>>>,
    <<<<"R","2">>, <<"S","A","E"," ","1","0","0","R","2">>>>,
    <<<<"R","3">>, <<"S","A","E"," ","1","0","0","R","3">>>>,
    <<<<"R","5">>, <<"S","A","E"," ","1","0","0","R","5">>>>,
    <<<<"R","6">>, <<"S","A","E"," ","1","0","0","R","6">>>>,
    <<<<"R","7">>, <<"S","A","E"," ","1","0","0","R","7">>>>,
    <<<<"R","8">>, <<"S","A","E"," ","1","0","0","R","8">>>>,
    <<<<"R","1","2">>, <<"S","A","E"," ","1","0","0","R","1","2">>>>,
    <<<<"R","1","3">>, <<"S","A","E"," ","1","0","0","R","1","3">>>> >>

\* "model_name.strip().upper().replace('-', '').replace(' ', '')"
clean_model(model_name) == RemoveChar(RemoveChar(upper(strip(model_name)), "-"), " ")

\* first position >= i that is not whitespace (\s*), not [A-Z] ([A-Z]*),
\* not [A-Z0-9] ([A-Z0-9]*), in upper-cased text
RECURSIVE SkipWhite(_, _)
SkipWhite(s, i) == IF i <= Len(s) /\ IsWhite(s[i]) THEN SkipWhite(s, i + 1) ELSE i
IsUpperChar(c) == c \in DOMAIN LowerOf
RECURSIVE SkipUpper(_, _)
SkipUpper(s, i) == IF i <= Len(s) /\ IsUpperChar(s[i]) THEN SkipUpper(s, i + 1) ELSE i
RECURSIVE SkipAlnum(_, _)
SkipAlnum(s, i) ==
    IF i <= Len(s) /\ (IsUpperChar(s[i]) \/ IsDigit(s[i])) THEN SkipAlnum(s, i + 1) ELSE i

\* r'SAE\s*\d+R\d+[A-Z]*' at i of upper-cased u: the end of the match, or 0
SaePatternEnd(u, i) ==
    LET a == SkipWhite(u, i + 3)
        b == SkipDigits(u, a)
        c == SkipDigits(u, b + 1)
    IN  IF StartsAt(u, i, <<"S","A","E">>) /\ b > a /\ CharAt(u, b, "R") /\ c > b + 1
        THEN SkipUpper(u, c) ELSE 0

\* r'DIN\s*EN\s*\d{3,4}\s*[A-Z0-9]*' at i: the end of the match, or 0
DinEnPatternEnd(u, i) ==
    LET a == SkipWhite(u, i + 3)
        b == SkipWhite(u, a + 2)
        c == IF DigitsAt(u, b, 4) THEN b + 4 ELSE b + 3
    IN  IF StartsAt(u, i, <<"D","I","N">>) /\ StartsAt(u, a, <<"E","N">>) /\ DigitsAt(u, b, 3)
        THEN SkipAlnum(u, SkipWhite(u, c)) ELSE 0

\* r'EN\s*\d{3,4}\s*[A-Z0-9]+' at i: the end of the match, or 0
EnPatternEnd(u, i) ==
    LET b == SkipWhite(u, i + 2)
        c == IF DigitsAt(u, b, 4) THEN b + 4 ELSE b + 3
        d == SkipWhite(u, c)
    IN  IF ~(StartsAt(u, i, <<"E","N">>) /\ DigitsAt(u, b, 3)) THEN 0
        ELSE IF SkipAlnum(u, d) > d THEN SkipAlnum(u, d)
        ELSE IF DigitsAt(u, b, 4) THEN b + 4
        ELSE 0

\* r'ISO\s*\d{4,}' at i: the end of the match, or 0
IsoPatternEnd(u, i) ==
    LET a == SkipWhite(u, i + 3)
    IN  IF StartsAt(u, i, <<"I","S","O">>) /\ DigitsAt(u, a, 4) THEN SkipDigits(u, a) ELSE 0

\* standard_patterns[k - 1] at i
PatternEnd(k, u, i) ==
    IF k = 1 THEN SaePatternEnd(u, i)
    ELSE IF k = 2 THEN DinEnPatternEnd(u, i)
    ELSE IF k = 3 THEN EnPatternEnd(u, i)
    ELSE IsoPatternEnd(u, i)

\* re.sub(r'\s+', ' ', match)
RECURSIVE CollapseWhite(_)
CollapseWhite(s) ==
    IF s = <<>> THEN <<>>
    ELSE IF IsWhite(Head(s))
    THEN <<" ">> \o CollapseWhite(SubSeq(s, SkipWhite(s, 1), Len(s)))
    ELSE <<Head(s)>> \o CollapseWhite(Tail(s))

\* re.match(r'^EN\s*\d+\s*$', clean_match, re.IGNORECASE)
OnlyEnNumber(u) ==
    /\ StartsAt(u, 1, <<"E","N">>)
    /\ SkipDigits(u, SkipWhite(u, 3)) > SkipWhite(u, 3)
    /\ SkipWhite(u, SkipDigits(u, SkipWhite(u, 3))) = Len(u) + 1

\* "More strict validation" of a match
ValidStandard(clean_match) ==
    /\ clean_match # <<>>
    /\ ~Contains(<<"D","N">>, upper(clean_match))
    /\ Len(clean_match) >= 6
    /\ ~OnlyEnNumber(upper(clean_match))

\* the first valid match of standard_patterns[k - 1] in re.findall order
\* from position i on, or ''
RECURSIVE FindStandard(_, _, _, _)
FindStandardAt(k, page_text, u, i, e) ==
    IF e = 0 THEN FindStandard(k, page_text, u, i + 1)
    ELSE IF ValidStandard(strip(CollapseWhite(SubSeq(page_text, i, e - 1))))
    THEN strip(CollapseWhite(SubSeq(page_text, i, e - 1)))
    ELSE FindStandard(k, page_text, u, e)
FindStandard(k, page_text, u, i) ==
    IF i > Len(u) THEN <<>>
    ELSE FindStandardAt(k, page_text, u, i, PatternEnd(k, u, i))

\* "Fallback: try to find standards in page text"
StandardInText(page_text) ==
    IF \E k \in 1..4 : FindStandard(k, page_text, upper(page_text), 1) # <<>>
    THEN FindStandard(CHOOSE k \in 1..4 :
                         /\ FindStandard(k, page_text, upper(page_text), 1) # <<>>
                         /\ \A m \in 1..(k - 1) :
                               FindStandard(m, page_text, upper(page_text), 1) = <<>>,
                      page_text, upper(page_text), 1)
    ELSE <<>>

\* "Try partial match": the value of the first key, in dict order, that
\* clean_model contains; '' when there is none
PartialMatch(clean) ==
    IF \E k \in 1..Len(model_to_standard) : Contains(model_to_standard[k][1], clean)
    THEN model_to_standard[CHOOSE k \in 1..Len(model_to_standard) :
            /\ Contains(model_to_standard[k][1], clean)
            /\ \A m \in 1..(k - 1) : ~Contains(model_to_standard[m][1], clean)][2]
    ELSE <<>>

\* the standard found for the cleaned model name: exact match, then
\* partial match, then the fallback on the page text
StandardOfModel(clean, page_text) ==
    IF HasKey(model_to_standard, clean) THEN Lookup(model_to_standard, clean)
    ELSE IF PartialMatch(clean) # <<>> THEN PartialMatch(clean)
    ELSE StandardInText(page_text)

\* HeizmannScraper._extract_standard_from_page, soup being its text
_extract_standard_from_page(page_text, model_name) ==
    StandardOfModel(clean_model(model_name), page_text)

\* HeizmannScraper._determine_construction, combined being
\* f"{name_upper} {std_upper}"
ConstructionOf(combined) ==
    IF Contains(<<"4","S","P">>, combined) \/ Contains(<<"4","S","H">>, combined)
       \/ Contains(<<"S","P","I","R","A","L">>, combined) THEN <<"s","p","i","r","a","l"," ","w","i","r","e">>
    ELSE IF Contains(<<"2","S","C">>, combined) \/ Contains(<<"2","S","N">>, combined) THEN <<"2"," ","w","i","r","e"," ","b","r","a","i","d">>
    ELSE IF Contains(<<"1","S","C">>, combined) \/ Contains(<<"1","S","N">>, combined) THEN <<"1"," ","w","i","r","e"," ","b","r","a","i","d">>
    ELSE IF Contains(<<"2","T","E">>, combined) THEN <<"2"," ","t","e","x","t","i","l","e"," ","b","r","a","i","d">>
    ELSE IF Contains(<<"1","T","E">>, combined) \/ Contains(<<"3","T","E">>, combined) THEN <<"1"," ","t","e","x","t","i","l","e"," ","b","r","a","i","d">>
    ELSE IF Contains(<<"R","1">>, combined) THEN <<"1"," ","w","i","r","e"," ","b","r","a","i","d">>
    ELSE IF Contains(<<"R","2">>, combined) THEN <<"2"," ","w","i","r","e"," ","b","r","a","i","d">>
    ELSE IF Contains(<<"R","3">>, combined) \/ Contains(<<"R","6">>, combined) THEN <<"t","e","x","t","i","l","e"," ","b","r","a","i","d">>
    ELSE IF Contains(<<"R","5">>, combined) \/ Contains(<<"R","8">>, combined) THEN <<"t","e","x","t","i","l","e">>
    ELSE <<"w","i","r","e"," ","b","r","a","i","d">>
heizmann_determine_construction(model_name, standard) ==
    ConstructionOf(upper(model_name) \o <<" ">> \o upper(standard))

\* str(n) of a natural number
RECURSIVE ToDigits(_)
ToDigits(n) ==
    IF n < 10 THEN <<Digits[n + 1]>> ELSE ToDigits(n \div 10) \o <<Digits[(n % 10) + 1]>>

\* int(s): ok is FALSE where int() raises ValueError
IntOf(s) ==
    IF isdigit(s) THEN [ok |-> TRUE, val |-> ParseInt(s)]
    ELSE IF Len(s) > 1 /\ s[1] = "-" /\ isdigit(Tail(s))
    THEN [ok |-> TRUE, val |-> 0 - ParseInt(Tail(s))]
    ELSE IF Len(s) > 1 /\ s[1] = "+" /\ isdigit(Tail(s))
    THEN [ok |-> TRUE, val |-> ParseInt(Tail(s))]
    ELSE [ok |-> FALSE, val |-> 0]

\* cell_texts[k - 1], '' standing for a missing cell
CellText(cells, k) == IF Len(cells) >= k THEN cells[k] ELSE <<>>

\* "Extract DN from cell 1"
VariantDn(cell) == IF isdigit(cell) THEN <<"D","N">> \o cell ELSE <<>>

\* "Extract inch code from cell 2": re.match(r'-?\d+$'), abs(int()) <= 32
InchCode(cell) == IF CharAt(cell, 1, "-") THEN Tail(cell) ELSE cell
VariantInch(cell) ==
    IF isdigit(InchCode(cell)) /\ ParseInt(InchCode(cell)) <= 32
    THEN ToDigits(ParseInt(InchCode(cell))) \o <<"/","1","6","\"">>
    ELSE <<>>

\* "variant = {'supplier': 'Heizmann', 'model': ..., 'category': ..., 'source_url': url}"
NewVariant(model_name, url) ==
    [keys |-> {"supplier", "model", "category", "source_url"},
     supplier |-> <<"H","e","i","z","m","a","n","n">>, model |-> model_name,
     category |-> <<"H","o","c","h","d","r","u","c","k","-","G","u","m","m","i","s","c","h","l","ä","u","c","h","e">>, source_url |-> url,
     dn |-> <<>>, article_number |-> <<>>, product_number |-> <<>>, inch_size |-> <<>>,
     inner_diameter_mm |-> 0, outer_diameter_mm |-> 0, bend_radius_mm |-> 0,
     working_pressure_bar |-> 0, burst_pressure_bar |-> 0,
     standard |-> <<>>, construction |-> <<>>, reference |-> <<>>]

\* the value None of _extract_variant_from_cells
NoVariant == [NewVariant(<<>>, <<>>) EXCEPT !.keys = {}, !.supplier = <<>>, !.category = <<>>]

\* "if number: variant[key] = number", a pressure in bar being kept in hundredths
VariantFloat(d, key, f) == With(d, f.ok /\ f.val # 0, key, f.val)
VariantInt(d, key, n) == With(d, n.ok /\ n.val # 0, key, 100 * n.val)

\* the variant dict filled from the cells
VariantOfCells(cells, model_name, article_number, url, standard) ==
    With(
     With(
      With(
       VariantInt(
        VariantInt(
         VariantFloat(
          VariantFloat(
           VariantFloat(
            With(
             With(
              With(
               With(NewVariant(model_name, url),
                    VariantDn(CellText(cells, 2)) # <<>>, "dn", VariantDn(CellText(cells, 2))),
               DigitsAt(article_number, 1, 5), "article_number", article_number),
              CellText(cells, 10) # <<>>, "product_number", CellText(cells, 10)),
             VariantInch(CellText(cells, 3)) # <<>>, "inch_size", VariantInch(CellText(cells, 3))),
            "inner_diameter_mm", FloatOf(ReplaceChar(CellText(cells, 4), ",", "."))),
           "outer_diameter_mm", FloatOf(ReplaceChar(CellText(cells, 5), ",", "."))),
          "bend_radius_mm", FloatOf(ReplaceChar(CellText(cells, 6), ",", "."))),
         "working_pressure_bar", IntOf(CellText(cells, 8))),
        "burst_pressure_bar", IntOf(CellText(cells, 7))),
       standard # <<>>, "standard", standard),
      TRUE, "construction", heizmann_determine_construction(model_name, standard)),
     TRUE, "reference",
     IF CellText(cells, 10) # <<>> THEN CellText(cells, 10) ELSE model_name)

\* HeizmannScraper._extract_variant_from_cells:
\* "return variant if (dn and article_number) else None"
_extract_variant_from_cells(cells, model_name, article_number, url, standard) ==
    IF VariantDn(CellText(cells, 2)) # <<>> /\ article_number # <<>>
    THEN VariantOfCells(cells, model_name, article_number, url, standard)
    ELSE NoVariant

\* _scrape_product_page for one table row: the standard of the page, then
\* the variant of the row
scrape_row(row) ==
    _extract_variant_from_cells(row.cells, row.model_name, row.article_number, row.url,
        _extract_standard_from_page(row.page_text, row.model_name))

\* rows of variant tables: a variant row, a row whose DN cell is no
\* number, a row that is too short
VariantCells == {
    <<<<>>, <<"1","2">>, <<"-","8">>, <<"1","2",",","7">>, <<"2","0",",","6">>, <<"1","8","0">>, <<"1","1","0","0">>, <<"2","7","5">>, <<"0",",","5","5">>,
      <<"2","S","N","-","0","8">>, <<"4","8","4","3","2","1">>>>,
    <<<<>>, <<"D","N">>, <<"Z","o","l","l">>, <<"m","m">>, <<"m","m">>, <<"m","m">>, <<"b","a","r">>, <<"b","a","r">>, <<"k","g">>,
      <<"P","r","o","d","."," ","N","r",".">>, <<"A","r","t","."," ","N","r",".">>>>,
    <<<<>>, <<"1","6">>, <<"1","0">>>> }

\* model names of product links, with and without an R designation
VariantModels == { <<"2","S","N">>, <<"R","1","2">>, <<"R","1","3">>, <<"S","A","E"," ","1","0","0"," ","R","1","2">>, <<"H","y","d","r","o"," ","R","1","3","-","0","8">>,
                   <<"P","o","w","e","r","f","l","e","x"," ","R","1","6">>, <<"R","1">>, <<"M","u","l","t","i","t","e","x">> }

\* the link text taken as article number: a number, none, another text
VariantArticles == { <<"4","8","4","3","2","1">>, <<>>, <<"D","e","t","a","i","l","s">> }

\* text of a product page: none, a norm line, a DN line before a norm line
VariantPages == { <<>>, <<"N","o","r","m",":"," ","S","A","E"," ","1","0","0","R","1","6">>, <<"D","I","N"," ","E","N"," ","8","5","3"," ","D","N","1","2",","," ","D","I","N"," ","E","N"," ","8","5","6"," ","4","S","P">> }

\* the rows handed to _scrape_product_page
VariantRows ==
    { [cells |-> c, model_name |-> m, article_number |-> a,
       url |-> <<"/","d","e","/","p","r","o","d","u","c","t","/","1","/">>, page_text |-> t] :
         c \in VariantCells, m \in VariantModels, a \in VariantArticles, t \in VariantPages }

-----------------------------------------------------------------------------
(* BalflexParser of Hose_Scraping/scripts/balflex_parser.py.  The catalog  *)
(* text is the sequence of its lines (content.split('\n')).                *)

MaxLines == 2    \* most lines of a catalog text handed to BalflexParser

\* re.sub(r'(\d),(\d)', r'\1.\2', line) from position i on; no match spans
\* a line break, so the substitution is made line by line
RECURSIVE EuropeanDecimalFrom(_, _)
EuropeanDecimalFrom(s, i) ==
    IF i > Len(s) THEN <<>>
    ELSE IF i + 2 <= Len(s) /\ IsDigit(s[i]) /\ s[i + 1] = "," /\ IsDigit(s[i + 2])
    THEN <<s[i], ".", s[i + 2]>> \o EuropeanDecimalFrom(s, i + 3)
    ELSE <<s[i]>> \o EuropeanDecimalFrom(s, i + 1)
european_decimal(content) ==
    [k \in 1..Len(content) |-> EuropeanDecimalFrom(content[k], 1)]

\* the keywords of model_patterns, in the order of the list
model_patterns == <<<<"B","A","L","P","A","C">>, <<"F","O","R","Z","A">>, <<"T","E","X","M","A","S","T","E","R">>, <<"B","A","L","F","L","O","N">>,
                    <<"B","A","L","M","A","S","T","E","R">>, <<"P","O","W","E","R","S","P","I","R">>>>

IsLetterChar(c) == c \in DOMAIN LowerOf \/ c \in DOMAIN UpperOf

\* [A-Z0-9\s] under re.IGNORECASE, [A-Z0-9\s\-] for BALPAC
InModelClass(k, c) ==
    IsWhite(c) \/ IsDigit(c) \/ IsLetterChar(c) \/ (k = 1 /\ c = "-")
RECURSIVE SkipModelClass(_, _, _)
SkipModelClass(k, s, i) ==
    IF i <= Len(s) /\ InModelClass(k, s[i]) THEN SkipModelClass(k, s, i + 1) ELSE i

\* model_patterns[k] matches at i: the keyword, \s+, then one character of
\* the class at least (\d* for TEXMASTER)
ModelAt(k, s, i) ==
    /\ StartsAt(upper(s), i, model_patterns[k])
    /\ i + Len(model_patterns[k]) <= Len(s)
    /\ IsWhite(s[i + Len(model_patterns[k])])
    /\ k # 3 => /\ i + Len(model_patterns[k]) + 1 <= Len(s)
                /\ InModelClass(k, s[i + Len(model_patterns[k]) + 1])

\* the position after the match of model_patterns[k] at i
ModelEnd(k, s, i) ==
    IF k = 3 THEN SkipDigits(s, SkipWhite(s, i + Len(model_patterns[k])))
    ELSE SkipModelClass(k, s, i + Len(model_patterns[k]))

\* re.search(model_patterns[k], line, re.IGNORECASE).group(0).strip()
ModelSearch(k, s) ==
    LET At(t, i) == ModelAt(k, t, i)
    IN  IF FirstPos(s, At) = 0 THEN NoMatch
        ELSE strip(SubSeq(s, FirstPos(s, At), ModelEnd(k, s, FirstPos(s, At)) - 1))

\* "Track current product model/series name": the loop over
\* model_patterns from pattern k on
RECURSIVE TrackModel(_, _, _)
TrackModel(line, k, current_model) ==
    IF k > Len(model_patterns) THEN current_model
    ELSE IF ModelSearch(k, line) # NoMatch /\ Len(ModelSearch(k, line)) > 5
    THEN ModelSearch(k, line)
    ELSE TrackModel(line, k + 1, current_model)

\* pieces of a regular expression matched from i on: the position after the
\* piece, 0 where it does not match (or i is 0 already)
LitEnd(s, i, word) == IF i >= 1 /\ StartsAt(upper(s), i, word) THEN i + Len(word) ELSE 0
WhiteEnd(s, i) == IF i >= 1 /\ i <= Len(s) /\ IsWhite(s[i]) THEN SkipWhite(s, i) ELSE 0
DigitsEnd(s, i) == IF i >= 1 /\ i <= Len(s) /\ IsDigit(s[i]) THEN SkipDigits(s, i) ELSE 0
RECURSIVE SkipLetterChars(_, _)
SkipLetterChars(s, i) ==
    IF i <= Len(s) /\ IsLetterChar(s[i]) THEN SkipLetterChars(s, i + 1) ELSE i

\* DIN\s+EN\s+\d+ | SAE\s+100R\d+[A-Z]* | EN\s+\d+/\d+ at i
StdDinEnEnd(s, i) ==
    DigitsEnd(s, WhiteEnd(s, LitEnd(s, WhiteEnd(s, LitEnd(s, i, <<"D","I","N">>)), <<"E","N">>)))
StdSaeEnd(s, i) ==
    IF DigitsEnd(s, LitEnd(s, WhiteEnd(s, LitEnd(s, i, <<"S","A","E">>)), <<"1","0","0","R">>)) = 0 THEN 0
    ELSE SkipLetterChars(s, DigitsEnd(s, LitEnd(s, WhiteEnd(s, LitEnd(s, i, <<"S","A","E">>)), <<"1","0","0","R">>)))
StdEnSlashEnd(s, i) ==
    DigitsEnd(s, LitEnd(s, DigitsEnd(s, WhiteEnd(s, LitEnd(s, i, <<"E","N">>))), <<"/">>))
StdEnd(s, i) ==
    IF StdDinEnEnd(s, i) # 0 THEN StdDinEnEnd(s, i)
    ELSE IF StdSaeEnd(s, i) # 0 THEN StdSaeEnd(s, i)
    ELSE StdEnSlashEnd(s, i)
StdAt(s, i) == StdEnd(s, i) # 0

\* "Track standards": std_match.group(1).strip(), NoMatch if none
std_search(line) ==
    IF FirstPos(line, StdAt) = 0 THEN NoMatch
    ELSE strip(SubSeq(line, FirstPos(line, StdAt), StdEnd(line, FirstPos(line, StdAt)) - 1))

\* the maximal runs of non-whitespace characters of s from position i on
RECURSIVE SkipNonWhite(_, _)
SkipNonWhite(s, i) ==
    IF i <= Len(s) /\ ~IsWhite(s[i]) THEN SkipNonWhite(s, i + 1) ELSE i
RECURSIVE WordsFrom(_, _)
WordsFrom(s, i) ==
    IF SkipWhite(s, i) > Len(s) THEN <<>>
    ELSE <<SubSeq(s, SkipWhite(s, i), SkipNonWhite(s, SkipWhite(s, i)) - 1)>>
         \o WordsFrom(s, SkipNonWhite(s, SkipWhite(s, i)))

\* [A-Z0-9\-]+ , 10\.\d+\.?\d* , [\-\d]+ and [\d\.]+ taking a whole word
IsReferenceWord(t) ==
    t # <<>> /\ \A i \in 1..Len(t) : IsUpperChar(t[i]) \/ IsDigit(t[i]) \/ t[i] = "-"
IsArticleWord(t) ==
    /\ StartsAt(t, 1, <<"1","0",".">>)
    /\ SkipDigits(t, 4) > 4
    /\ \/ SkipDigits(t, 4) > Len(t)
       \/ t[SkipDigits(t, 4)] = "." /\ SkipDigits(t, SkipDigits(t, 4) + 1) > Len(t)
IsDashWord(t) == t # <<>> /\ \A i \in 1..Len(t) : IsDigit(t[i]) \/ t[i] = "-"
IsNumberWord(t) == t # <<>> /\ \A i \in 1..Len(t) : IsDigit(t[i]) \/ t[i] = "."

\* the longest prefix of t that [\d\.]+ takes
RECURSIVE SkipNumber(_, _)
SkipNumber(t, i) ==
    IF i <= Len(t) /\ (IsDigit(t[i]) \/ t[i] = ".") THEN SkipNumber(t, i + 1) ELSE i
NumberPrefix(t) == SubSeq(t, 1, SkipNumber(t, 1) - 1)

\* ([\-\d]+)\s+([\d\.]+)\s+([\d\.]+) matches the words k, k + 1, k + 2
RowTail(w, k) ==
    /\ Len(w) >= k + 2
    /\ IsDashWord(w[k])
    /\ IsNumberWord(w[k + 1])
    /\ NumberPrefix(w[k + 2]) # <<>>

\* the groups 1..7 of a row match whose dash code is the word k
RowGroups(w, dn, inch, k) ==
    [matched |-> TRUE,
     groups |-> <<w[1], w[2], dn, inch, w[k], w[k + 1], NumberPrefix(w[k + 2])>>]
NoRow == [matched |-> FALSE, groups |-> <<>>]

\* the position after DN\d* in the third word, 0 if it does not start 'DN'
DnDigitsEnd(w) == IF StartsAt(w[3], 1, <<"D","N">>) THEN SkipDigits(w[3], 3) ELSE 0

\* row_match: group 3 takes the whole word DN\d+ if the rest matches then,
\* else the longest DN\d+ that leaves group 4 a character of the word and
\* lets the rest match, else nothing
row_match(line) ==
    LET w == WordsFrom(line, 1)
    IN  IF ~(Len(w) >= 3 /\ IsReferenceWord(w[1]) /\ IsArticleWord(w[2])) THEN NoRow
        ELSE IF DnDigitsEnd(w) > 3 /\ DnDigitsEnd(w) > Len(w[3]) /\ RowTail(w, 5)
        THEN RowGroups(w, w[3], w[4], 5)
        ELSE IF ~RowTail(w, 4) THEN NoRow
        ELSE IF DnDigitsEnd(w) > 3 /\ DnDigitsEnd(w) <= Len(w[3])
        THEN RowGroups(w, SubSeq(w[3], 1, DnDigitsEnd(w) - 1),
                       SubSeq(w[3], DnDigitsEnd(w), Len(w[3])), 4)
        ELSE IF DnDigitsEnd(w) > 4
        THEN RowGroups(w, SubSeq(w[3], 1, Len(w[3]) - 1),
                       SubSeq(w[3], Len(w[3]), Len(w[3])), 4)
        ELSE RowGroups(w, <<>>, w[3], 4)

\* float(t) of a word of digits and dots does not raise ValueError
NumberOk(t) ==
    /\ Cardinality({ i \in 1..Len(t) : t[i] = "." }) <= 1
    /\ \E i \in 1..Len(t) : IsDigit(t[i])

\* BalflexParser._extract_model_from_reference:
\* re.match(r'([A-Z0-9]+)[\-\.]', reference)
_extract_model_from_reference(reference) ==
    IF /\ SkipAlnum(reference, 1) > 1
       /\ SkipAlnum(reference, 1) <= Len(reference)
       /\ reference[SkipAlnum(reference, 1)] \in {"-", "."}
    THEN SubSeq(reference, 1, SkipAlnum(reference, 1) - 1)
    ELSE reference

\* BalflexParser._determine_construction
BalflexConstructionOf(combined) ==
    IF Contains(<<"4","S","P">>, combined) \/ Contains(<<"4","S","H">>, combined)
       \/ Contains(<<"S","P","I","R","A","L">>, combined) THEN <<"s","p","i","r","a","l"," ","w","i","r","e">>
    ELSE IF Contains(<<"2","S","C">>, combined) \/ Contains(<<"2","S","N">>, combined)
            \/ Contains(<<"R","1","6">>, combined) THEN <<"2"," ","w","i","r","e"," ","b","r","a","i","d">>
    ELSE IF Contains(<<"2","T","E">>, combined) THEN <<"1"," ","t","e","x","t","i","l","e"," ","b","r","a","i","d">>
    ELSE IF Contains(<<"3","T","E">>, combined) \/ Contains(<<"R","3">>, combined) THEN <<"2"," ","t","e","x","t","i","l","e"," ","b","r","a","i","d">>
    ELSE IF Contains(<<"1","S","C">>, combined) \/ Contains(<<"1","S","N">>, combined)
            \/ Contains(<<"1","T","E">>, combined) THEN <<"1"," ","w","i","r","e"," ","b","r","a","i","d">>
    ELSE IF Contains(<<"T","E","X","T","I","L","E">>, combined) \/ Contains(<<"T","E","X","M","A","S","T","E","R">>, combined)
    THEN <<"1"," ","t","e","x","t","i","l","e"," ","b","r","a","i","d">>
    ELSE <<"w","i","r","e"," ","b","r","a","i","d">>
balflex_determine_construction(reference, model) ==
    BalflexConstructionOf(upper(reference) \o <<" ">> \o upper(model))

\* BalflexParser._determine_category
balflex_determine_category(construction) ==
    IF Contains(<<"s","p","i","r","a","l">>, lower(construction)) THEN <<"S","p","i","r","a","l"," ","W","i","r","e">>
    ELSE IF Contains(<<"w","i","r","e">>, lower(construction)) THEN <<"S","t","e","e","l"," ","W","i","r","e"," ","B","r","a","i","d">>
    ELSE IF Contains(<<"t","e","x","t","i","l","e">>, lower(construction)) THEN <<"T","e","x","t","i","l","e"," ","B","r","a","i","d">>
    ELSE <<"H","y","d","r","a","u","l","i","c"," ","H","o","s","e">>

\* the product dict of a row.  The keys that the try block of lines 107-138
\* adds from the later numbers of the line are left out: the block reads
\* no running context, changes none of the keys below and cannot raise
\* (except: pass).  The catalog's numbers have two decimals at most.
balflex_row_product(g, current_model, current_standard) ==
    [keys |-> {"supplier", "model", "reference", "article_number", "dn", "inch_size",
               "sae_dash", "inner_diameter_mm", "outer_diameter_mm", "standard",
               "construction", "category"},
     supplier |-> "Balflex",
     model |-> current_model,
     reference |-> g[1],
     article_number |-> g[2],
     dn |-> g[3],
     inch_size |-> g[4],
     sae_dash |-> g[5],
     inner_diameter_mm |-> FloatOf(g[6]).val,
     outer_diameter_mm |-> FloatOf(g[7]).val,
     standard |-> current_standard,
     construction |-> balflex_determine_construction(g[1], current_model),
     category |-> balflex_determine_category(
                      balflex_determine_construction(g[1], current_model))]

\* "Determine model if not set": None is the empty string
ModelOrReference(current_model, reference) ==
    IF current_model = <<>> THEN _extract_model_from_reference(reference)
    ELSE current_model

\* the running standard after a line
TrackStandard(line, current_standard) ==
    IF std_search(line) # NoMatch THEN std_search(line) ELSE current_standard

\* BalflexParser._parse_all_product_rows from line i on; float() of group
\* 6 or 7 raises ValueError out of parse()
RECURSIVE ParseRowsFrom(_, _, _, _, _)
ParseRowsFrom(lines, i, current_model, current_standard, products) ==
    IF i > Len(lines) THEN [raised |-> FALSE, products |-> products]
    ELSE IF ~row_match(lines[i]).matched
    THEN ParseRowsFrom(lines, i + 1, TrackModel(lines[i], 1, current_model),
                       TrackStandard(lines[i], current_standard), products)
    ELSE IF ~NumberOk(row_match(lines[i]).groups[6])
            \/ ~NumberOk(row_match(lines[i]).groups[7])
    THEN [raised |-> TRUE, products |-> <<>>]
    ELSE ParseRowsFrom(lines, i + 1,
             ModelOrReference(TrackModel(lines[i], 1, current_model),
                              row_match(lines[i]).groups[1]),
             TrackStandard(lines[i], current_standard),
             Append(products,
                    balflex_row_product(row_match(lines[i]).groups,
                        ModelOrReference(TrackModel(lines[i], 1, current_model),
                                         row_match(lines[i]).groups[1]),
                        TrackStandard(lines[i], current_standard))))
_parse_all_product_rows(lines) == ParseRowsFrom(lines, 1, <<>>, <<>>, <<>>)

\* BalflexParser.parse on the lines of a catalog text
balflex_parse(content) == _parse_all_product_rows(european_decimal(content))

\* lines of a catalog text: series headers, a standard, product rows with
\* and without DN, with European decimals, and a row whose inner diameter
\* is no numeral
CatalogLines == {
    <<"B","A","L","M","A","S","T","E","R"," ","2","S","N">>,
    <<"T","E","X","M","A","S","T","E","R"," ","2"," ","-"," ","D","I","N"," ","E","N"," ","8","5","4"," ","2","T","E">>,
    <<"F","O","R","Z","A"," "," ">>,
    <<"W","o","r","k","i","n","g"," ","p","r","e","s","s","u","r","e"," ","E","N"," ","8","5","3","/","8","5","7"," ","i","n"," ","M","P","a">>,
    <<"2","T","E","-","0","4"," ","1","0",".","2","0","0","2",".","0","4"," ","D","N","6"," ","1","/","4","\""," ","-","4"," ","6",",","4"," ","1","2",",","7"," ","7",",","5"," ","1","0","9","0">>,
    <<"1","S","N","-","0","6"," ","1","0",".","1","0","0","1",".","0","6"," ","D","N","1","0"," ","3","/","8","\""," ","-","6"," ","9",".","5"," ","1","7",".","4"," ","1","8",".","0">>,
    <<"1","T","E","-","0","8"," ","1","0",".","1","5","0","0",".","0","8"," ","D","N","1","2"," ","1","/","2","\""," ","-","8"," ","1","2",".","7"," ","1","9",".","0","m","m">>,
    <<"3","T","E","-","0","8"," ","1","0",".","1","5","0","3",".","0","8"," ","1","/","2","\""," ","-","8"," ","1","2",".","7"," ","1","9",".","8"," ","6",".","3">>,
    <<"T","X"," ","1","0",".","3","0","0","0"," ","D","N","1","6","X"," ","-","1","0"," ","1","6"," ","2","3",".","5">>,
    <<"R","1","6","I","-","0","4"," ","1","0",".","1","0","1","6",".","0","4"," ","D","N","6"," ","1","/","4","\""," ","-","4"," ","6",".","4",".","1"," ","1","2",".","7">> }
CatalogTexts == RowsUpTo(CatalogLines, MaxLines)

-----------------------------------------------------------------------------
(* The enrichment steps add_angle_information.py,                          *)
(* add_series_from_lookup.py and process_balflex_standards_IMPROVED.py.    *)
(* None is the empty string (both are falsy, and the loops test only the   *)
(* truth of what the extract functions return).                            *)

\* item[key] = value
SetItem(item, key, value) ==
    [k \in {"keys", key} |-> IF k = "keys" THEN item.keys \cup {key} ELSE value] @@ item

\* item[key] = value; item[key + '_source'] = source
Store(item, key, value, source_key, source) ==
    SetItem(SetItem(item, key, value), source_key, source)

\* "sub in s" of the lower-cased / upper-cased text
InLower(sub, s) == Contains(sub, lower(s))
InUpper(sub, s) == Contains(sub, upper(s))

\* extract_angle_heizmann
extract_angle_heizmann(item) ==
    LET model == Get(item, "model", <<>>)
        combined == upper(model \o <<" ">> \o Get(item, "identification", <<>>))
    IN  IF Contains(<<"9","0","S">>, model) \/ Contains(<<"9","0","°">>, combined)
           \/ Contains(<<"9","0"," ">>, combined) THEN <<"9","0","°">>
        ELSE IF Contains(<<"4","5","S">>, model) \/ Contains(<<"4","5","°">>, combined)
                \/ Contains(<<"4","5"," ">>, combined) THEN <<"4","5","°">>
        ELSE IF Contains(<<"G","E","R","A","D","E">>, combined) \/ Contains(<<"S","T","R","A","I","G","H","T">>, combined)
        THEN <<"S","t","r","a","i","g","h","t">>
        ELSE IF /\ Contains(<<"M","L","O","F">>, model) \/ Contains(<<"M","S","O","F">>, model)
                /\ ~Contains(<<"9","0">>, model)
                /\ ~Contains(<<"4","5">>, model)
                /\ InLower(<<"g","e","r","a","d","e">>, model)
        THEN <<"S","t","r","a","i","g","h","t">>
        ELSE <<>>

\* \w and \b of a regular expression
IsWordChar(c) == IsLetterChar(c) \/ IsDigit(c) \/ c = "_"
WordAt(s, i) == i >= 1 /\ i <= Len(s) /\ IsWordChar(s[i])
Boundary(s, i) == WordAt(s, i - 1) # WordAt(s, i)

\* r'\b(24|37|60)°\b' matches at i
SeatAngleAt(s, i) ==
    /\ Boundary(s, i)
    /\ StartsAt(s, i, <<"2","4">>) \/ StartsAt(s, i, <<"3","7">>) \/ StartsAt(s, i, <<"6","0">>)
    /\ StartsAt(s, i + 2, <<"°">>)
    /\ Boundary(s, i + 3)

\* r'\b(45|90)°?\b' matches at i
FittingAngleAt(s, i) ==
    /\ Boundary(s, i)
    /\ StartsAt(s, i, <<"4","5">>) \/ StartsAt(s, i, <<"9","0">>)
    /\ \/ StartsAt(s, i + 2, <<"°">>) /\ Boundary(s, i + 3)
       \/ Boundary(s, i + 2)

\* extract_angle_balflex
extract_angle_balflex(item) ==
    LET product_type == Get(item, "product_type", <<>>)
    IN  IF /\ Contains(<<"9","0">>, product_type)
           /\ InLower(<<"s","w","e","p","t">>, product_type) \/ InLower(<<"e","l","b","o","w">>, product_type)
        THEN <<"9","0","°">>
        ELSE IF /\ Contains(<<"4","5">>, product_type)
                /\ InLower(<<"s","w","e","p","t">>, product_type) \/ Contains(<<"°">>, product_type)
        THEN <<"4","5","°">>
        ELSE IF InLower(<<"s","t","r","a","i","g","h","t">>, product_type) \/ InLower(<<"g","e","r","a","d","e">>, product_type)
        THEN <<"S","t","r","a","i","g","h","t">>
        ELSE IF Get(item, "category", <<>>) = <<"E","l","b","o","w">>
        THEN (IF Contains(<<"4","5">>, product_type) THEN <<"4","5","°">> ELSE <<"9","0","°">>)
        ELSE IF /\ \E i \in 1..Len(product_type) : SeatAngleAt(product_type, i)
                /\ ~InLower(<<"s","w","e","p","t">>, product_type)
                /\ ~InLower(<<"e","l","b","o","w">>, product_type)
                /\ ~\E i \in 1..Len(product_type) : FittingAngleAt(product_type, i)
        THEN <<"S","t","r","a","i","g","h","t">>
        ELSE <<>>

\* one step of the loops of add_angle_information.main
add_angle(item) ==
    SetItem(item, "angle", IF item.supplier = "Heizmann"
                           THEN extract_angle_heizmann(item)
                           ELSE extract_angle_balflex(item))

\* the patterns of extract_series_heizmann: DKO([LS]), MLO([LS]), ...
series_patterns == <<<<"D","K","O">>, <<"M","L","O">>, <<"M","S","O">>, <<"S","R","O">>, <<"W","O">>>>
SeriesAt(k, s, i) ==
    /\ StartsAt(s, i, series_patterns[k])
    /\ i + Len(series_patterns[k]) <= Len(s)
    /\ s[i + Len(series_patterns[k])] \in {"L", "S"}

\* re.search(patterns[k], combined).group(1), <<>> if there is no match
SeriesSearch(k, s) ==
    LET At(t, i) == SeriesAt(k, t, i)
    IN  IF FirstPos(s, At) = 0 THEN <<>>
        ELSE <<s[FirstPos(s, At) + Len(series_patterns[k])]>>

\* extract_series_heizmann from pattern k on: (series, source)
RECURSIVE SeriesFrom(_, _)
SeriesFrom(combined, k) ==
    IF k > Len(series_patterns) THEN <<<<>>, <<>>>>
    ELSE IF SeriesSearch(k, combined) # <<>>
    THEN <<SeriesSearch(k, combined),
           <<"p","a","t","t","e","r","n","_">> \o series_patterns[k] \o <<"(","[","L","S","]",")">>>>
    ELSE SeriesFrom(combined, k + 1)
extract_series_heizmann(item) ==
    SeriesFrom(upper(Get(item, "model", <<>>) \o <<" ">>
                     \o Get(item, "identification", <<>>)), 1)

\* extract_series_balflex_from_product_type
extract_series_balflex_from_product_type(item) ==
    IF InUpper(<<"L","I","G","H","T"," ","S","E","R","I","E">>, Get(item, "product_type", <<>>))
    THEN <<<<"L">>, <<"p","r","o","d","u","c","t","_","t","y","p","e","_","l","i","g","h","t">>>>
    ELSE IF InUpper(<<"H","E","A","V","Y"," ","S","E","R","I","E">>, Get(item, "product_type", <<>>))
    THEN <<<<"S">>, <<"p","r","o","d","u","c","t","_","t","y","p","e","_","h","e","a","v","y">>>>
    ELSE <<<<>>, <<>>>>

\* extract_series_balflex_from_article
extract_series_balflex_from_article(item) ==
    LET article == Get(item, "article_number", <<>>)
    IN  IF Get(item, "standard", <<>>) # <<"I","S","O"," ","8","4","3","4","-","1">> THEN <<<<>>, <<>>>>
        ELSE IF Len(article) < 8 THEN <<<<>>, <<>>>>
        ELSE IF article[5] = "0" THEN <<<<"L">>, <<"a","r","t","i","c","l","e","_","n","u","m","b","e","r","_","p","a","t","t","e","r","n">>>>
        ELSE IF article[5] = "1" THEN <<<<"S">>, <<"a","r","t","i","c","l","e","_","n","u","m","b","e","r","_","p","a","t","t","e","r","n">>>>
        ELSE <<<<>>, <<>>>>

\* the (series, source) that the loops of add_series_from_lookup.main find
series_of(item) ==
    IF item.supplier = "Heizmann" THEN extract_series_heizmann(item)
    ELSE IF extract_series_balflex_from_product_type(item)[1] # <<>>
    THEN extract_series_balflex_from_product_type(item)
    ELSE extract_series_balflex_from_article(item)

\* one step of the loops of add_series_from_lookup.main
add_series(item) ==
    IF series_of(item)[1] = <<>> THEN item
    ELSE Store(item, "series", series_of(item)[1], "series_source", series_of(item)[2])

\* KEYWORD\s*\d+ under re.IGNORECASE at i, and with (?:-\d+)? after it:
\* the position after the match, 0 if there is none
CodeEnd(s, i, word) ==
    IF LitEnd(s, i, word) = 0 THEN 0 ELSE DigitsEnd(s, SkipWhite(s, LitEnd(s, i, word)))
CodePartEnd(s, i, word) ==
    IF CodeEnd(s, i, word) # 0
       /\ DigitsEnd(s, LitEnd(s, CodeEnd(s, i, word), <<"-">>)) # 0
    THEN DigitsEnd(s, LitEnd(s, CodeEnd(s, i, word), <<"-">>))
    ELSE CodeEnd(s, i, word)

\* re.search(...).group(0) of these two patterns, <<>> if there is no match
CodeSearch(s, word) ==
    LET At(t, i) == CodeEnd(t, i, word) # 0
    IN  IF FirstPos(s, At) = 0 THEN <<>>
        ELSE SubSeq(s, FirstPos(s, At), CodeEnd(s, FirstPos(s, At), word) - 1)
CodePartSearch(s, word) ==
    LET At(t, i) == CodeEnd(t, i, word) # 0
    IN  IF FirstPos(s, At) = 0 THEN <<>>
        ELSE SubSeq(s, FirstPos(s, At), CodePartEnd(s, FirstPos(s, At), word) - 1)

\* extract_standard_from_product_type
extract_standard_from_product_type(product_type) ==
    IF product_type = <<>> THEN <<>>
    ELSE IF InUpper(<<"J","I","S">>, product_type)
    THEN (IF CodePartSearch(product_type, <<"J","I","S">>) # <<>>
             /\ ~Contains(<<"J","I","S"," ","6","0">>, CodePartSearch(product_type, <<"J","I","S">>))
          THEN CodePartSearch(product_type, <<"J","I","S">>) ELSE <<"J","I","S">>)
    ELSE IF InUpper(<<"B","S","P">>, product_type) THEN <<"B","S","P">>
    ELSE IF InUpper(<<"N","P","T">>, product_type) THEN <<"N","P","T">>
    ELSE IF InUpper(<<"J","I","C">>, product_type)
    THEN (IF CodeSearch(product_type, <<"J","I","C">>) # <<>>
             /\ ~Contains(<<"3","7">>, CodeSearch(product_type, <<"J","I","C">>))
          THEN CodeSearch(product_type, <<"J","I","C">>) ELSE <<"J","I","C">>)
    ELSE IF InUpper(<<"O","R","F","S">>, product_type) \/ InUpper(<<"O","-","R","I","N","G"," ","F","A","C","E"," ","S","E","A","L">>, product_type)
    THEN <<"O","R","F","S">>
    ELSE IF InUpper(<<"S","A","E">>, product_type)
    THEN (IF CodeSearch(product_type, <<"S","A","E">>) # <<>>
          THEN CodeSearch(product_type, <<"S","A","E">>) ELSE <<"S","A","E">>)
    ELSE IF InUpper(<<"I","S","O">>, product_type)
    THEN (IF CodePartSearch(product_type, <<"I","S","O">>) # <<>>
          THEN CodePartSearch(product_type, <<"I","S","O">>) ELSE <<"I","S","O">>)
    ELSE IF InUpper(<<"D","I","N">>, product_type)
    THEN (IF CodeSearch(product_type, <<"D","I","N">>) # <<>>
          THEN CodeSearch(product_type, <<"D","I","N">>) ELSE <<"D","I","N">>)
    ELSE IF InUpper(<<"K","O","M","A","T","S","U">>, product_type) THEN <<"K","O","M","A","T","S","U">>
    ELSE IF InUpper(<<"C","A","T">>, product_type) THEN <<"C","A","T","E","R","P","I","L","L","A","R">>
    ELSE <<>>

\* the branches of extract_standard_from_category for Tee and Elbow
StandardHint(product_type) ==
    IF InUpper(<<"J","I","S">>, product_type) THEN <<"J","I","S">>
    ELSE IF InUpper(<<"S","A","E">>, product_type) THEN <<"S","A","E">>
    ELSE IF InUpper(<<"B","S","P">>, product_type) THEN <<"B","S","P">>
    ELSE <<>>

\* extract_standard_from_category
extract_standard_from_category(item) ==
    LET category == Get(item, "category", <<>>)
        product_type == Get(item, "product_type", <<>>)
    IN  IF category = <<"M","e","t","r","i","c">>
        THEN (IF InUpper(<<"J","I","S">>, product_type) \/ Contains(<<"6","0","°">>, product_type)
              THEN <<"J","I","S">> ELSE <<"I","S","O"," ","8","4","3","4","-","1">>)
        ELSE IF category = <<"B","S","P">>
        THEN (IF InUpper(<<"J","I","S">>, product_type) THEN <<"J","I","S">> ELSE <<"B","S","P">>)
        ELSE IF category = <<"J","I","C"," ","3","7">> THEN <<"J","I","C">>
        ELSE IF category = <<"O","R","F","S">>
        THEN (IF InUpper(<<"N","P","T">>, product_type) THEN <<"N","P","T">> ELSE <<"O","R","F","S">>)
        ELSE IF category = <<"N","P","T">> THEN <<"N","P","T">>
        ELSE IF category = <<"F","l","a","n","g","e">>
        THEN (IF InUpper(<<"O","R","F","S">>, product_type) \/ InUpper(<<"O","-","R","I","N","G">>, product_type)
              THEN <<"O","R","F","S">> ELSE <<"S","A","E"," ","J","5","1","8">>)
        ELSE IF category = <<"T","e","e">> THEN StandardHint(product_type)
        ELSE IF category = <<"E","l","b","o","w">>
        THEN (IF StandardHint(product_type) # <<>> THEN StandardHint(product_type)
              ELSE IF InUpper(<<"M","E","T","R","I","C">>, product_type) \/ Contains(<<"2","4","°">>, product_type)
              THEN <<"I","S","O"," ","8","4","3","4","-","1">>
              ELSE <<>>)
        ELSE <<>>

\* r'\d+°\s*(?:Cone|Inner Cone|Innenkonus)' under re.IGNORECASE at i: the
\* position after the match, 0 if there is none
ConeWordEnd(s, i) ==
    IF LitEnd(s, i, <<"C","O","N","E">>) # 0 THEN LitEnd(s, i, <<"C","O","N","E">>)
    ELSE IF LitEnd(s, i, <<"I","N","N","E","R"," ","C","O","N","E">>) # 0 THEN LitEnd(s, i, <<"I","N","N","E","R"," ","C","O","N","E">>)
    ELSE LitEnd(s, i, <<"I","N","N","E","N","K","O","N","U","S">>)
ConeEnd(s, i) ==
    IF LitEnd(s, DigitsEnd(s, i), <<"°">>) = 0 THEN 0
    ELSE ConeWordEnd(s, SkipWhite(s, LitEnd(s, DigitsEnd(s, i), <<"°">>)))
ConeAt(s, i) == ConeEnd(s, i) # 0

\* extract_seat_type
extract_seat_type(product_type) ==
    IF FirstPos(product_type, ConeAt) # 0
    THEN SubSeq(product_type, FirstPos(product_type, ConeAt),
                ConeEnd(product_type, FirstPos(product_type, ConeAt)) - 1)
    ELSE IF InLower(<<"f","l","a","t"," ","f","a","c","e">>, product_type) THEN <<"F","l","a","t"," ","F","a","c","e">>
    ELSE IF InLower(<<"o","-","r","i","n","g">>, product_type) \/ InLower(<<"o","r","i","n","g">>, product_type)
    THEN <<"O","-","R","i","n","g">>
    ELSE <<>>

\* enhance_seat_type_from_category
enhance_seat_type_from_category(item) ==
    IF Get(item, "seat_type", <<>>) # <<>> THEN item.seat_type
    ELSE IF Get(item, "category", <<>>) = <<"J","I","C"," ","3","7">>
            \/ Get(item, "standard", <<>>) = <<"J","I","C">> THEN <<"3","7","°"," ","C","o","n","e">>
    ELSE IF Get(item, "category", <<>>) = <<"O","R","F","S">>
            \/ Get(item, "standard", <<>>) = <<"O","R","F","S">> THEN <<"O","-","R","i","n","g">>
    ELSE IF Get(item, "standard", <<>>) = <<"I","S","O"," ","8","4","3","4","-","1">> THEN <<"2","4","°"," ","C","o","n","e">>
    ELSE IF Get(item, "standard", <<>>) = <<"J","I","S">> THEN <<"6","0","°"," ","C","o","n","e">>
    ELSE IF Get(item, "category", <<>>) = <<"F","e","r","r","u","l","e">> THEN <<"F","l","a","t"," ","F","a","c","e">>
    ELSE <<>>

\* "Process standard" of the loop of process_balflex_standards
process_standard(item) ==
    IF Get(item, "standard", <<>>) # <<>>
    THEN SetItem(item, "standard_source", "original")
    ELSE IF extract_standard_from_product_type(Get(item, "product_type", <<>>)) # <<>>
    THEN Store(item, "standard",
               extract_standard_from_product_type(Get(item, "product_type", <<>>)),
               "standard_source", "product_type")
    ELSE IF extract_standard_from_category(item) # <<>>
    THEN Store(item, "standard", extract_standard_from_category(item),
               "standard_source", "category")
    ELSE item

\* "Process seat type" of the loop; original_seat is the seat type the
\* product had before the step
process_seat_type(item) ==
    IF Get(item, "seat_type", <<>>) # <<>>
    THEN SetItem(item, "seat_type_source", "original")
    ELSE IF extract_seat_type(Get(item, "product_type", <<>>)) # <<>>
    THEN Store(item, "seat_type", extract_seat_type(Get(item, "product_type", <<>>)),
               "seat_type_source", "product_type")
    ELSE IF enhance_seat_type_from_category(item) # <<>>
    THEN Store(item, "seat_type", enhance_seat_type_from_category(item),
               "seat_type_source", "category")
    ELSE item

\* one step of the loop of process_balflex_standards
process_balflex_standards(item) == process_seat_type(process_standard(item))

\* products of the files that the enrichment steps read
HeizmannItems == {
    [keys |-> {"supplier", "model", "identification"}, supplier |-> "Heizmann", model |-> <<"P","r","e","s","s","n","i","p","p","e","l"," ","M","S","O","F"," ","9","0","S">>, identification |-> <<"M","S","O","S"," ","9","0","°"," ","D","N","3","2">>],
    [keys |-> {"supplier", "model", "identification"}, supplier |-> "Heizmann", model |-> <<"P","r","e","s","s","n","i","p","p","e","l"," ","M","L","O","F"," ","4","5","S">>, identification |-> <<"D","K","O","L"," ","4","5","°"," ","D","N","1","0">>],
    [keys |-> {"supplier", "model", "identification"}, supplier |-> "Heizmann", model |-> <<"P","r","e","s","s","n","i","p","p","e","l"," ","M","L","O","F"," ","g","e","r","a","d","e">>, identification |-> <<"D","K","O","L"," ","D","N","1","2">>],
    [keys |-> {"supplier", "model", "identification"}, supplier |-> "Heizmann", model |-> <<"P","r","e","s","s","n","i","p","p","e","l"," ","A","G","J">>, identification |-> <<"J","I","C"," ","D","N","8">>],
    [keys |-> {"supplier", "model"}, supplier |-> "Heizmann", model |-> <<"S","c","h","w","e","n","k","v","e","r","s","c","h","r","a","u","b","u","n","g"," ","W","O","S">>, identification |-> <<>>],
    [keys |-> {"supplier", "model", "identification"}, supplier |-> "Heizmann", model |-> <<"P","r","e","s","s","n","i","p","p","e","l"," ","M","S","O","F">>, identification |-> <<"s","t","r","a","i","g","h","t"," ","D","N","6">>] }
BalflexItems == {
    [keys |-> {"supplier", "article_number", "product_type", "category"}, supplier |-> "Balflex", article_number |-> <<"2","3",".","1","0","0","0",".","0","4","0","6">>, product_type |-> <<"F","e","m","a","l","e"," ","M","e","t","r","i","c"," ","L","i","g","h","t"," ","S","e","r","i","e"," ","2","4","°"," ","C","o","n","e">>, category |-> <<"M","e","t","r","i","c">>, standard |-> <<>>, seat_type |-> <<>>],
    [keys |-> {"supplier", "article_number", "product_type", "category", "standard", "seat_type"}, supplier |-> "Balflex", article_number |-> <<"2","3",".","1","1","0","0",".","0","4","0","6">>, product_type |-> <<"F","e","m","a","l","e"," ","M","e","t","r","i","c"," ","2","4","°">>, category |-> <<"M","e","t","r","i","c">>, standard |-> <<"I","S","O"," ","8","4","3","4","-","1">>, seat_type |-> <<"2","4","°"," ","C","o","n","e">>],
    [keys |-> {"supplier", "article_number", "product_type", "category", "standard"}, supplier |-> "Balflex", article_number |-> <<"2","3",".","5","1","9","3",".","0","8","1","0">>, product_type |-> <<"9","0","°"," ","S","w","e","p","t"," ","F","e","m","a","l","e"," ","M","e","t","r","i","c">>, category |-> <<"E","l","b","o","w">>, standard |-> <<"I","S","O"," ","8","4","3","4","-","1">>, seat_type |-> <<>>],
    [keys |-> {"supplier", "article_number", "product_type", "category"}, supplier |-> "Balflex", article_number |-> <<"2","3",".","4","0","0","0",".","0","8">>, product_type |-> <<"4","5","°"," ","S","w","e","p","t"," ","F","e","m","a","l","e"," ","J","I","C"," ","3","7">>, category |-> <<"J","I","C"," ","3","7">>, standard |-> <<>>, seat_type |-> <<>>],
    [keys |-> {"supplier", "article_number", "product_type", "category"}, supplier |-> "Balflex", article_number |-> <<"2","3",".","6","0","0","0",".","1","2">>, product_type |-> <<"F","l","a","n","g","e"," ","s","a","e"," ","6","0","0","0"," ","p","s","i">>, category |-> <<"F","l","a","n","g","e">>, standard |-> <<>>, seat_type |-> <<>>],
    [keys |-> {"supplier", "article_number", "product_type", "category"}, supplier |-> "Balflex", article_number |-> <<"2","3",".","7","0","0","0",".","0","6">>, product_type |-> <<"M","a","l","e"," ","I","S","O"," ","1","2","1","5","1","-","2"," ","F","l","a","t"," ","F","a","c","e">>, category |-> <<"O","R","F","S">>, standard |-> <<>>, seat_type |-> <<>>],
    [keys |-> {"supplier", "article_number", "product_type", "category"}, supplier |-> "Balflex", article_number |-> <<"2","3",".","3","0","0","0",".","0","4">>, product_type |-> <<"M","a","l","e"," ","B","S","P"," ","6","0","°"," ","C","o","n","e">>, category |-> <<"B","S","P">>, standard |-> <<>>, seat_type |-> <<>>],
    [keys |-> {"supplier", "article_number", "product_type", "category"}, supplier |-> "Balflex", article_number |-> <<"2","0",".","0","6","0","0",".","0","8">>, product_type |-> <<"F","e","r","r","u","l","e"," ","f","o","r"," ","2","S","N"," ","h","o","s","e">>, category |-> <<"F","e","r","r","u","l","e">>, standard |-> <<>>, seat_type |-> <<>>],
    [keys |-> {"supplier", "article_number", "product_type", "category"}, supplier |-> "Balflex", article_number |-> <<"2","3",".","8","0","0","0",".","1","0">>, product_type |-> <<"S","t","r","a","i","g","h","t"," ","M","a","l","e"," ","D","I","N"," ","2","3","5","3">>, category |-> <<"M","e","t","r","i","c">>, standard |-> <<>>, seat_type |-> <<>>],
    [keys |-> {"supplier", "article_number", "product_type", "category"}, supplier |-> "Balflex", article_number |-> <<"2","3",".","9","0","0","0",".","1","0">>, product_type |-> <<"F","e","m","a","l","e"," ","J","I","S"," ","6","0","°"," ","I","n","n","e","r"," ","C","o","n","e"," ","H","e","a","v","y"," ","S","e","r","i","e","s">>, category |-> <<"M","e","t","r","i","c">>, standard |-> <<>>, seat_type |-> <<>>],
    [keys |-> {"supplier", "article_number", "product_type", "category"}, supplier |-> "Balflex", article_number |-> <<"2","3",".","9","1","0","0",".","1","6">>, product_type |-> <<"K","o","m","a","t","s","u"," ","F","e","m","a","l","e"," ","3","0","°"," ","F","l","a","r","e">>, category |-> <<"T","e","e">>, standard |-> <<>>, seat_type |-> <<>>],
    [keys |-> {"supplier", "article_number", "product_type", "category"}, supplier |-> "Balflex", article_number |-> <<"2","3",".","2","0","0","0",".","0","8">>, product_type |-> <<"M","a","l","e"," ","N","P","T","F"," ","3","7","°","x">>, category |-> <<"N","P","T">>, standard |-> <<>>, seat_type |-> <<>>] }

-----------------------------------------------------------------------------
(* FittingsMatcher of scripts/match_fittings.py *)

excluded_categories == <<<<"S","t","a","u","b","-"," ","&"," ","G","e","w","i","n","d","e","s","c","h","u","t","z">>, <<"H","y","d","r","a","u","l","i","k","-","D","i","c","h","t","u","n","g","e","n">>, <<"S","o","r","t","i","m","e","n","t","e">>, <<"R","o","h","r","t","e","c","h","n","i","k">>, <<"S","y","s","t","e","m"," ","W","E","O">>, <<"M","e","s","s","t","e","c","h","n","i","k">>>>

excluded_models == <<<<"K","L","R">>, <<"S","c","h","e","l","l","e","n">>, <<"S","c","h","e","l","l","e">>>>

\* some string of the list is contained in text: any(t in text for t in list)
AnyIn(list, text) == \E k \in 1..Len(list) : Contains(list[k], text)

\* the test of the valid_heizmann comprehension
IsValidHeizmann(f) ==
    /\ \A k \in 1..Len(excluded_categories) : Get(f, "category", NoneCell) # excluded_categories[k]
    /\ ~AnyIn(excluded_models, Get(f, "model", <<>>))

thread_groups == <<
    <<<<"J","I","C">>, <<"J","I","C"," ","3","7">>, <<"J","I","C"," ","3","7","°">>, <<"S","A","E"," ","J","5","1","4">>>>,
    <<<<"O","R","F","S">>, <<"O","-","R","I","N","G"," ","F","A","C","E"," ","S","E","A","L">>>>,
    <<<<"B","S","P">>, <<"B","S","P","P">>, <<"B","S","P","T">>, <<"G">>>>,
    <<<<"N","P","T">>, <<"N","P","T","F">>>>,
    <<<<"M","E","T","R","I","C">>, <<"M">>, <<"D","I","N">>>>
>>

\* FittingsMatcher._threads_match
_threads_match(balflex_thread, heizmann_thread) ==
    IF balflex_thread = <<>> \/ heizmann_thread = <<>> THEN FALSE
    ELSE \/ upper(balflex_thread) = upper(heizmann_thread)
         \/ \E g \in 1..Len(thread_groups) :
               /\ AnyIn(thread_groups[g], upper(balflex_thread))
               /\ AnyIn(thread_groups[g], upper(heizmann_thread))
         \/ /\ Contains(<<"U","N","F">>, upper(heizmann_thread)) \/ Contains(<<"U","N">>, upper(heizmann_thread))
            /\ Contains(<<"J","I","C">>, upper(balflex_thread))

conn_groups == <<
    <<<<"F","E","R","R","U","L","E">>, <<"H","O","S","E"," ","E","N","D">>, <<"S","L","E","E","V","E">>>>,
    <<<<"E","L","B","O","W">>, <<"9","0">>, <<"B","E","N","D">>>>,
    <<<<"T","E","E">>, <<"T">>, <<"T","H","R","E","E","-","W","A","Y">>>>,
    <<<<"A","D","A","P","T","E","R">>, <<"A","D","A","P","T","O","R">>, <<"C","O","U","P","L","I","N","G">>>>,
    <<<<"F","L","A","N","G","E">>, <<"F","L","A","N","S","C","H">>>>,
    <<<<"S","T","R","A","I","G","H","T">>, <<"S","T","R","I","G","H","T">>, <<"D","I","R","E","C","T">>>>
>>

\* FittingsMatcher._connections_match
_connections_match(balflex_conn, heizmann_conn) ==
    IF balflex_conn = <<>> \/ heizmann_conn = <<>> THEN FALSE
    ELSE \/ upper(balflex_conn) = upper(heizmann_conn)
         \/ \E g \in 1..Len(conn_groups) :
               /\ AnyIn(conn_groups[g], upper(balflex_conn))
               /\ AnyIn(conn_groups[g], upper(heizmann_conn))

\* r'-\s*(\d+)' matches at i
DashDigitsAt(s, i) ==
    /\ s[i] = "-"
    /\ SkipWhite(s, i + 1) <= Len(s)
    /\ IsDigit(s[SkipWhite(s, i + 1)])

\* int(match.group(1)) of the first match at i, 0 (None) for no match
DashNumAt(s, i) ==
    IF i = 0 THEN 0
    ELSE ParseInt(SubSeq(s, SkipWhite(s, i + 1), SkipDigits(s, SkipWhite(s, i + 1)) - 1))
dash_num(bal_dash) == DashNumAt(bal_dash, FirstPos(bal_dash, DashDigitsAt))

\* int(match.group(1)) of re.search(r'DN\s*(\d+)', heiz_dn, re.IGNORECASE), 0 for None
DnNumAt(u, i) ==
    IF i = 0 THEN 0
    ELSE ParseInt(SubSeq(u, SkipWhite(u, i + 2), SkipDigits(u, SkipWhite(u, i + 2)) - 1))
DnWhiteDigitsAt(u, i) ==
    /\ StartsAt(u, i, <<"D","N">>)
    /\ SkipWhite(u, i + 2) <= Len(u)
    /\ IsDigit(u[SkipWhite(u, i + 2)])
dn_num(heiz_dn) == DnNumAt(upper(heiz_dn), FirstPos(upper(heiz_dn), DnWhiteDigitsAt))

\* "Dash to DN conversion (approximation)"
dash_to_dn == <<<<3, 5>>, <<4, 6>>, <<5, 8>>, <<6, 10>>, <<8, 12>>, <<10, 16>>,
                <<12, 20>>, <<16, 25>>, <<20, 32>>, <<24, 40>>, <<32, 50>>>>

\* "Also check size field": the two sizes without quotes are equal
SizeFieldsMatch(heiz_size, bal_hose_inch) ==
    /\ heiz_size # <<>> /\ bal_hose_inch # <<>>
    /\ RemoveChar(strip(heiz_size), "\"") = RemoveChar(strip(bal_hose_inch), "\"")

\* FittingsMatcher._sizes_match
_sizes_match(balflex, heizmann) ==
    LET n == dash_num(Get(balflex, "dash_size", <<>>))
        d == dn_num(StrOr(Get(heizmann, "DN", <<>>), Get(heizmann, "dn", <<>>)))
    IN  IF n # 0 /\ d # 0 /\ HasKey(dash_to_dn, n)
        THEN Abs(Lookup(dash_to_dn, n) - d) <= 2
        ELSE SizeFieldsMatch(Get(heizmann, "size", <<>>), Get(balflex, "hose_size_inch", <<>>))

\* FittingsMatcher._hose_sizes_match
_hose_sizes_match(balflex, heizmann) ==
    LET bal_inch == Get(balflex, "hose_size_inch", <<>>)
        heiz_size == Get(heizmann, "size", <<>>)
    IN  /\ bal_inch # <<>> /\ heiz_size # <<>>
        /\ strip(RemoveChar(RemoveChar(bal_inch, "\""), " "))
              = strip(RemoveChar(RemoveChar(heiz_size, "\""), " "))

\* FittingsMatcher._categories_match
_categories_match(balflex_cat, heizmann_cat) ==
    IF balflex_cat = <<>> \/ heizmann_cat = <<>> THEN FALSE
    ELSE LET bal == upper(balflex_cat)
             heiz == upper(heizmann_cat)
         IN  \/ Contains(bal, heiz) \/ Contains(heiz, bal)
             \/ Contains(<<"F","E","R","R","U","L","E">>, bal) /\ (Contains(<<"F","E","R","R","U","L","E">>, heiz) \/ Contains(<<"H","O","S","E"," ","E","N","D">>, heiz))
             \/ Contains(<<"J","I","C">>, bal) /\ Contains(<<"J","I","C">>, heiz)
             \/ Contains(<<"O","R","F","S">>, bal) /\ Contains(<<"O","R","F","S">>, heiz)
             \/ Contains(<<"F","L","A","N","G","E">>, bal) /\ (Contains(<<"F","L","A","N","G","E">>, heiz) \/ Contains(<<"F","L","A","N","S","C","H">>, heiz))

\* points when the test holds
Points(test, pts) == IF test THEN pts ELSE 0

\* FittingsMatcher._calculate_match_score
fittings_calculate_match_score(balflex, heizmann) ==
    Points(_threads_match(Get(balflex, "thread_type", <<>>), Get(heizmann, "thread_type", <<>>)), 40)
    + Points(_sizes_match(balflex, heizmann), 30)
    + Points(_hose_sizes_match(balflex, heizmann), 15)
    + Points(_connections_match(Get(balflex, "connection_type", <<>>),
                                Get(heizmann, "connection_type", <<>>)), 10)
    + Points(_categories_match(Get(balflex, "category", <<>>), Get(heizmann, "category", <<>>)), 5)

\* FittingsMatcher._get_match_reason: the labels of the reasons joined by
\* " | ", or "General compatibility"
_get_match_reason(balflex, heizmann) ==
    LET reasons ==
          (IF _threads_match(Get(balflex, "thread_type", <<>>), Get(heizmann, "thread_type", <<>>))
           THEN <<"Thread">> ELSE <<>>)
          \o (IF _connections_match(Get(balflex, "connection_type", <<>>),
                                    Get(heizmann, "connection_type", <<>>))
              THEN <<"Connection">> ELSE <<>>)
          \o (IF _sizes_match(balflex, heizmann) THEN <<"Size">> ELSE <<>>)
    IN  IF reasons # <<>> THEN reasons ELSE <<"General compatibility">>

\* "Minimum 45% match (thread+size required)"
FittingsThreshold == 45

\* "if score > best_score and score >= 45" of the inner loop
FittingsBetter(score, best_score) == score > best_score /\ score >= FittingsThreshold

\* the inner loop from target j on; best is (best_match, best_score),
\* best_match an index into valid, 0 for None
RECURSIVE FittingsScan(_, _, _, _)
FittingsScan(bal_fitting, valid, j, best) ==
    IF j > Len(valid) THEN best
    ELSE FittingsScan(bal_fitting, valid, j + 1,
            IF FittingsBetter(fittings_calculate_match_score(bal_fitting, valid[j]), best.score)
            THEN [idx |-> j, score |-> fittings_calculate_match_score(bal_fitting, valid[j])]
            ELSE best)

\* the dict appended to self.matches
FittingsMatchEntry(bal_fitting, best_match, best_score) ==
    [balflex_reference |-> Get(bal_fitting, "reference", <<>>),
     balflex_category |-> Get(bal_fitting, "category", <<>>),
     balflex_dash_size |-> Get(bal_fitting, "dash_size", <<>>),
     balflex_hose_mm |-> Get(bal_fitting, "hose_size_mm", <<>>),
     balflex_hose_inch |-> Get(bal_fitting, "hose_size_inch", <<>>),
     balflex_thread |-> Get(bal_fitting, "thread_type", <<>>),
     balflex_connection |-> Get(bal_fitting, "connection_type", <<>>),
     heizmann_article |-> Get(best_match, "article_number", <<>>),
     heizmann_category |-> Get(best_match, "category", <<>>),
     heizmann_size |-> Get(best_match, "size", <<>>),
     heizmann_dn |-> Get(best_match, "DN", <<>>),
     heizmann_thread |-> Get(best_match, "thread_type", <<>>),
     heizmann_connection |-> Get(best_match, "connection_type", <<>>),
     heizmann_material |-> Get(best_match, "material", <<>>),
     match_score |-> best_score,
     match_reason |-> _get_match_reason(bal_fitting, best_match)]

\* "if best_match: self.matches.append(...)"
FittingsEmit(acc, bal_fitting, valid, best) ==
    IF best.idx # 0
    THEN Append(acc, FittingsMatchEntry(bal_fitting, valid[best.idx], best.score))
    ELSE acc

\* the outer loop from source i on, acc being self.matches
RECURSIVE FittingsLoop(_, _, _, _)
FittingsLoop(balflex, valid, i, acc) ==
    IF i > Len(balflex) THEN acc
    ELSE FittingsLoop(balflex, valid, i + 1,
            FittingsEmit(acc, balflex[i], valid,
                         FittingsScan(balflex[i], valid, 1, [idx |-> 0, score |-> 0])))

\* FittingsMatcher.match: self.matches after the call on an object whose
\* matches list is empty
fittings_match(balflex, heizmann) ==
    FittingsLoop(balflex, SelectSeq(heizmann, IsValidHeizmann), 1, <<>>)

\* Balflex fittings as BalflexFittingsParser writes them
BalflexFittingParts == <<
    [keys |-> {"supplier", "category", "reference", "article_number", "dash_size",
               "hose_size_mm", "hose_size_inch", "thread_type", "connection_type"},
     supplier |-> <<"B","a","l","f","l","e","x">>, category |-> <<"J","I","C"," ","3","7">>,
     reference |-> <<"2","3",".","1","0","0","0",".","0","4">>, article_number |-> <<"2","3",".","1","0","0","0",".","0","4">>,
     dash_size |-> <<"-"," ","4">>, hose_size_mm |-> <<"6",".","4">>, hose_size_inch |-> <<"1","/","4","\"">>,
     thread_type |-> <<"J","I","C"," ","3","7","°">>, connection_type |-> <<>>],
    [keys |-> {"supplier", "category", "reference", "article_number", "dash_size",
               "hose_size_mm", "hose_size_inch", "thread_type", "connection_type"},
     supplier |-> <<"B","a","l","f","l","e","x">>, category |-> <<"F","e","r","r","u","l","e">>,
     reference |-> <<"2","0",".","0","6","0","0",".","0","8">>, article_number |-> <<"2","0",".","0","6","0","0",".","0","8">>,
     dash_size |-> <<"-"," ","8">>, hose_size_mm |-> <<"1","2",".","7">>, hose_size_inch |-> <<"1","/","2","\"">>,
     thread_type |-> <<>>, connection_type |-> <<"F","e","r","r","u","l","e">>],
    [keys |-> {"supplier", "category", "reference", "article_number", "dash_size",
               "hose_size_mm", "hose_size_inch", "thread_type", "connection_type"},
     supplier |-> <<"B","a","l","f","l","e","x">>, category |-> <<"B","S","P">>,
     reference |-> <<"2","3",".","3","0","0","0",".","0","0">>, article_number |-> <<"2","3",".","3","0","0","0",".","0","0">>,
     dash_size |-> <<>>, hose_size_mm |-> <<>>, hose_size_inch |-> <<>>,
     thread_type |-> <<"B","S","P">>, connection_type |-> <<>>],
    [keys |-> {"supplier", "category", "reference", "article_number", "dash_size",
               "hose_size_mm", "hose_size_inch", "thread_type", "connection_type"},
     supplier |-> <<"B","a","l","f","l","e","x">>, category |-> <<"O","R","F","S"," ","E","l","b","o","w">>,
     reference |-> <<"2","3",".","7","0","9","0",".","0","6">>, article_number |-> <<"2","3",".","7","0","9","0",".","0","6">>,
     dash_size |-> <<"-"," ","6">>, hose_size_mm |-> <<"9",".","5">>, hose_size_inch |-> <<"3","/","8","\"">>,
     thread_type |-> <<"O","R","F","S">>, connection_type |-> <<"E","l","b","o","w">>],
    [keys |-> {"supplier", "category", "reference", "article_number", "dash_size",
               "hose_size_mm", "hose_size_inch", "thread_type", "connection_type"},
     supplier |-> <<"B","a","l","f","l","e","x">>, category |-> <<"M","e","t","r","i","c">>,
     reference |-> <<"2","3",".","5","0","0","0",".","1","2">>, article_number |-> <<"2","3",".","5","0","0","0",".","1","2">>,
     dash_size |-> <<"-"," ","1","2">>, hose_size_mm |-> <<"1","9",".","0">>, hose_size_inch |-> <<"3","/","4","\"">>,
     thread_type |-> <<"M","e","t","r","i","c">>, connection_type |-> <<>>]
>>

\* Heizmann fittings as the fittings scraper writes them (one of an excluded
\* category, one of an excluded model)
HeizmannFittingParts == <<
    [keys |-> {"supplier", "category", "model", "article_number", "reference", "DN",
               "size", "thread_type", "connection_type", "material"},
     supplier |-> <<"H","e","i","z","m","a","n","n">>, category |-> <<"J","I","C"," ","A","d","a","p","t","e","r">>, model |-> <<"A","G","J">>,
     article_number |-> <<"1","0","0","0","0","1">>, reference |-> <<"1","0","0","0","0","1">>, DN |-> <<"D","N","6">>, dn |-> <<>>,
     size |-> <<"7","/","1","6","-","2","0"," ","U","N","F">>, thread_type |-> <<"J","I","C">>,
     connection_type |-> <<>>, material |-> <<>>],
    [keys |-> {"supplier", "category", "model", "article_number", "reference", "DN",
               "size", "thread_type", "connection_type", "material"},
     supplier |-> <<"H","e","i","z","m","a","n","n">>, category |-> <<"P","r","e","s","s","a","r","m","a","t","u","r","e","n">>, model |-> <<"P","N"," ","2","0">>,
     article_number |-> <<"1","0","0","0","0","2">>, reference |-> <<"1","0","0","0","0","2">>, DN |-> <<"D","N"," ","1","2">>, dn |-> <<>>,
     size |-> <<"1","/","2","\"">>, thread_type |-> <<"B","S","P">>,
     connection_type |-> <<>>, material |-> <<>>],
    [keys |-> {"supplier", "category", "model", "article_number", "reference", "DN",
               "size", "thread_type", "connection_type", "material"},
     supplier |-> <<"H","e","i","z","m","a","n","n">>, category |-> <<"B","S","P"," ","A","d","a","p","t","e","r">>, model |-> <<"G","E">>,
     article_number |-> <<"1","0","0","0","0","3">>, reference |-> <<"1","0","0","0","0","3">>, DN |-> <<>>, dn |-> <<>>,
     size |-> <<"G"," ","1","/","4">>, thread_type |-> <<"B","S","P">>,
     connection_type |-> <<>>, material |-> <<>>],
    [keys |-> {"supplier", "category", "model", "article_number", "reference", "DN",
               "size", "thread_type", "connection_type", "material"},
     supplier |-> <<"H","e","i","z","m","a","n","n">>, category |-> <<"S","t","a","u","b","-"," ","&"," ","G","e","w","i","n","d","e","s","c","h","u","t","z">>, model |-> <<"V","S","T","I">>,
     article_number |-> <<"1","0","0","0","0","4">>, reference |-> <<"1","0","0","0","0","4">>, DN |-> <<"D","N","6">>, dn |-> <<>>,
     size |-> <<"7","/","1","6","-","2","0"," ","U","N","F">>, thread_type |-> <<"J","I","C">>,
     connection_type |-> <<>>, material |-> <<>>],
    [keys |-> {"supplier", "category", "model", "article_number", "reference", "DN",
               "size", "thread_type", "connection_type", "material"},
     supplier |-> <<"H","e","i","z","m","a","n","n">>, category |-> <<"O","R","F","S">>, model |-> <<"K","L","R"," ","1","0">>,
     article_number |-> <<"1","0","0","0","0","5">>, reference |-> <<"1","0","0","0","0","5">>, DN |-> <<"D","N","1","0">>, dn |-> <<>>,
     size |-> <<"1","1","/","1","6","-","1","6"," ","U","N">>, thread_type |-> <<"O","R","F","S","/","U","N","F">>,
     connection_type |-> <<>>, material |-> <<>>],
    [keys |-> {"supplier", "category", "model", "article_number", "reference", "DN",
               "size", "thread_type", "connection_type", "material"},
     supplier |-> <<"H","e","i","z","m","a","n","n">>, category |-> <<"O","R","F","S">>, model |-> <<"A","O","F">>,
     article_number |-> <<"1","0","0","0","0","6">>, reference |-> <<"1","0","0","0","0","6">>, DN |-> <<"D","N","1","0">>, dn |-> <<>>,
     size |-> <<"3","/","8","\"">>, thread_type |-> <<"O","R","F","S","/","U","N","F">>,
     connection_type |-> <<>>, material |-> <<>>],
    [keys |-> {"supplier", "category", "model", "article_number", "reference", "DN",
               "size", "thread_type", "connection_type", "material"},
     supplier |-> <<"H","e","i","z","m","a","n","n">>, category |-> <<"S","c","h","n","e","i","d","r","i","n","g">>, model |-> <<"G","E","S">>,
     article_number |-> <<"1","0","0","0","0","7">>, reference |-> <<"1","0","0","0","0","7">>, DN |-> <<"D","N","2","5">>, dn |-> <<>>,
     size |-> <<"M","3","0","x","2">>, thread_type |-> <<"M","e","t","r","i","c"," ","(","S","c","h","n","e","i","d","r","i","n","g",")">>,
     connection_type |-> <<>>, material |-> <<>>]
>>

-----------------------------------------------------------------------------
(* Exceptions of ProductMatcher._calculate_match_score: a record may hold  *)
(* a key with the value None (null in the JSON file).                      *)

\* d[key] is None
IsNull(d, key) == key \in d.keys /\ d[key] = NoneCell

\* the record d with d[key] = None
WithNull(d, key) == [d EXCEPT !.keys = @ \cup {key}, ![key] = NoneCell]

\* "balflex.get('construction', '').lower()" raises AttributeError on None
ConstructionRaises(balflex, heizmann) ==
    IsNull(balflex, "construction") \/ IsNull(heizmann, "construction")

\* "balflex.get('standard', '').upper()" raises AttributeError on None
StandardRaises(balflex, heizmann) ==
    IsNull(balflex, "standard") \/ IsNull(heizmann, "standard")

\* "int(balflex['dn'].replace('DN', ''))" raises ValueError on what is no
\* integer numeral; it is evaluated for two different, non-empty dn
DnRaises(balflex, heizmann) ==
    /\ Truthy(Get(balflex, "dn", <<>>))
    /\ Truthy(Get(heizmann, "dn", <<>>))
    /\ Get(balflex, "dn", <<>>) # Get(heizmann, "dn", <<>>)
    /\ \/ ~IntOf(strip(ReplaceDN(Get(balflex, "dn", <<>>)))).ok
       \/ ~IntOf(strip(ReplaceDN(Get(heizmann, "dn", <<>>)))).ok

\* _calculate_match_score raises instead of returning (score, reasons)
HoseScorerRaises(balflex, heizmann) ==
    \/ ConstructionRaises(balflex, heizmann)
    \/ /\ ConstructionGate(lower(Get(balflex, "construction", <<>>)),
                           lower(Get(heizmann, "construction", <<>>))) = ""
       /\ DnRaises(balflex, heizmann) \/ StandardRaises(balflex, heizmann)

-----------------------------------------------------------------------------
(* The programs and their entry points *)

NotScored == [b |-> 0, h |-> 0, raised |-> FALSE, score |-> 0, reasons |-> <<>>]
FitNotRun == [done |-> FALSE, matches |-> <<>>, rejected_counts |-> ZeroCounts]
FitNotScored == [variant |-> "", h |-> 0, b |-> 0, raised |-> FALSE,
                 score |-> 0, reasons |-> <<>>, warnings |-> <<>>]
NoProduct == [keys |-> {}, dash_size |-> <<>>, hose_size_mm |-> <<>>,
              hose_size_inch |-> <<>>]
NotFixed == [done |-> FALSE, mm |-> 0, source |-> "", data |-> <<>>]

HoseIdle ==
    /\ balflex_products = <<>>
    /\ heizmann_products = <<>>
    /\ matches = <<>>
    /\ returned = <<>>
    /\ scored = NotScored

FitIdle ==
    /\ heizmann_data = <<>>
    /\ balflex_data = <<>>
    /\ min_threshold = 0
    /\ fit_out = FitNotRun
    /\ fit_scored = FitNotScored

DashIdle ==
    /\ product = NoProduct
    /\ fixed = NotFixed

MainIdle ==
    /\ main_pc = ""
    /\ main_log = <<>>

NotExtracted == [done |-> FALSE, raised |-> FALSE, products |-> <<>>, standard |-> <<>>]

ExtractIdle ==
    /\ extract_from = <<>>
    /\ extracted = NotExtracted

FittingsNotRun == [done |-> FALSE, matches |-> <<>>]

FittingsIdle ==
    /\ balflex_fittings = <<>>
    /\ heizmann_fittings = <<>>
    /\ fittings_out = FittingsNotRun

NotEnriched == [done |-> FALSE, product |-> <<>>]

EnrichIdle ==
    /\ enrich_in = <<>>
    /\ enriched = NotEnriched

\* ProductMatcher.__init__ on two catalog files
HoseInit ==
    /\ script = "product_matcher"
    /\ balflex_products \in Windows(BalflexCatalog)
    /\ heizmann_products \in Windows(HeizmannCatalog)
    /\ matches = <<>>
    /\ returned = <<>>
    /\ scored = NotScored
    /\ FitIdle
    /\ FittingsIdle
    /\ EnrichIdle
    /\ DashIdle
    /\ MainIdle
    /\ ExtractIdle

\* working pressures (MPa, in hundredths) of further records
PressureValues == {2000, 2200, 2400, 2500, 2600, 3500}

\* the record d with its working pressure stated as p MPa
StatedInMPa(d, p) ==
    [d EXCEPT !.keys = (@ \ {"working_pressure_bar"}) \cup {"working_pressure_mpa"},
              !.working_pressure_mpa = p, !.working_pressure_bar = 0]

\* a record whose extractor wrote no construction
WithoutConstruction(d) ==
    [d EXCEPT !.keys = @ \ {"construction"}, !.construction = <<>>]

\* the records handed to the hose scorer: the catalog's, the first
\* catalog record with each of the further pressures, records without a
\* construction, and records with a null construction or standard
Scorable(catalog) ==
    { catalog[k] : k \in 1..Len(catalog) }
    \cup { StatedInMPa(catalog[1], p) : p \in PressureValues }
    \cup { WithoutConstruction(catalog[k]) : k \in {1, 2, 6} }
    \cup { WithNull(catalog[1], "construction"), WithNull(catalog[1], "standard") }

\* a ProductMatcher holding one record per side, for a direct call of the scorer
HoseScorerInit ==
    /\ script = "hose_scorer"
    /\ \E b \in Scorable(BalflexCatalog), h \in Scorable(HeizmannCatalog) :
          /\ balflex_products = <<b>>
          /\ heizmann_products = <<h>>
    /\ matches = <<>>
    /\ returned = <<>>
    /\ scored = NotScored
    /\ FitIdle
    /\ FittingsIdle
    /\ EnrichIdle
    /\ DashIdle
    /\ MainIdle
    /\ ExtractIdle

\* match_pressarmaturen_WITH_SERIES.main after loading the two files
FitInit ==
    /\ script = "match_pressarmaturen"
    /\ heizmann_data \in Windows(HeizmannFittings)
    /\ balflex_data \in Windows(BalflexFittings)
    /\ min_threshold = 0
    /\ fit_out = FitNotRun
    /\ fit_scored = FitNotScored
    /\ HoseIdle
    /\ FittingsIdle
    /\ EnrichIdle
    /\ DashIdle
    /\ MainIdle
    /\ ExtractIdle

\* one record per side, for a direct call of a fitting scorer
FitScorerInit ==
    /\ script = "fitting_scorer"
    /\ \E i \in 1..Len(HeizmannFittings), j \in 1..Len(BalflexFittings) :
          /\ heizmann_data = <<HeizmannFittings[i]>>
          /\ balflex_data = <<BalflexFittings[j]>>
    /\ min_threshold = 0
    /\ fit_out = FitNotRun
    /\ fit_scored = FitNotScored
    /\ HoseIdle
    /\ FittingsIdle
    /\ EnrichIdle
    /\ DashIdle
    /\ MainIdle
    /\ ExtractIdle

\* fix_balflex_hose_sizes.main at one product of the loaded file
DashInit ==
    /\ script = "fix_balflex_hose_sizes"
    /\ \E d \in DashInputs, m \in HoseMmInputs, n \in HoseInchInputs :
          product = [keys |-> (IF d # <<>> THEN {"dash_size"} ELSE {})
                              \cup (IF m # <<>> THEN {"hose_size_mm"} ELSE {})
                              \cup (IF n # <<>> THEN {"hose_size_inch"} ELSE {}),
                     dash_size |-> d, hose_size_mm |-> m, hose_size_inch |-> n]
    /\ fixed = NotFixed
    /\ HoseIdle
    /\ FittingsIdle
    /\ EnrichIdle
    /\ FitIdle
    /\ MainIdle
    /\ ExtractIdle

\* Hose_Scraping/main.py: main() entered, directories made
MainInit ==
    /\ script = "main"
    /\ main_pc = "step1"
    /\ main_log = <<>>
    /\ HoseIdle
    /\ FittingsIdle
    /\ EnrichIdle
    /\ FitIdle
    /\ DashIdle
    /\ ExtractIdle

\* the programs other than the record extractors are not running
ExtractOnly ==
    /\ extracted = NotExtracted
    /\ HoseIdle
    /\ FittingsIdle
    /\ EnrichIdle
    /\ FitIdle
    /\ DashIdle
    /\ MainIdle

\* BalflexPDFParser._parse_page at one table of a catalog page
PdfInit ==
    /\ script = "balflex_pdf_parser"
    /\ \E t \in PdfTables, m \in PdfModels :
          extract_from = [table |-> t, model_name |-> m[1], standard |-> m[2]]
    /\ ExtractOnly

\* BalflexFittingsParser.parse at one page of the catalog
FittingsInit ==
    /\ script = "balflex_fittings_parser"
    /\ extract_from \in FittingPages
    /\ ExtractOnly

\* HeizmannScraper._scrape_product_page at one row of a product page
HeizmannInit ==
    /\ script = "heizmann_scraper"
    /\ extract_from \in VariantRows
    /\ ExtractOnly

\* BalflexParser.parse on a catalog text
BalflexParserInit ==
    /\ script = "balflex_parser"
    /\ extract_from \in CatalogTexts
    /\ ExtractOnly

\* the other programs are not running
EnrichOnly ==
    /\ enriched = NotEnriched
    /\ HoseIdle
    /\ FittingsIdle
    /\ FitIdle
    /\ DashIdle
    /\ MainIdle
    /\ ExtractIdle

\* add_angle_information.main at one product of the Heizmann or Balflex file
AngleInit ==
    /\ script = "add_angle_information"
    /\ enrich_in \in HeizmannItems \cup BalflexItems
    /\ EnrichOnly

\* add_series_from_lookup.main at one product of the Heizmann or Balflex file
SeriesInit ==
    /\ script = "add_series_from_lookup"
    /\ enrich_in \in HeizmannItems \cup BalflexItems
    /\ EnrichOnly

\* process_balflex_standards at one product of the Balflex file
StandardsInit ==
    /\ script = "process_balflex_standards_IMPROVED"
    /\ enrich_in \in BalflexItems
    /\ EnrichOnly

\* FittingsMatcher.__init__ on two fittings files
FittingsMatcherInit ==
    /\ script = "match_fittings"
    /\ balflex_fittings \in Windows(BalflexFittingParts)
    /\ heizmann_fittings \in Windows(HeizmannFittingParts)
    /\ fittings_out = FittingsNotRun
    /\ HoseIdle
    /\ EnrichIdle
    /\ FitIdle
    /\ DashIdle
    /\ MainIdle
    /\ ExtractIdle

Init ==
    \/ HoseInit \/ HoseScorerInit \/ FitInit \/ FitScorerInit \/ DashInit
    \/ MainInit
    \/ PdfInit \/ FittingsInit \/ HeizmannInit \/ BalflexParserInit
    \/ AngleInit \/ SeriesInit \/ StandardsInit
    \/ FittingsMatcherInit

\* match_products as it would be if the loop consumed the source list
\* (for balflex in list(...): self.balflex_products.remove(balflex))
match_products_ConsumesInputs ==
    /\ script = "product_matcher"
    /\ Len(returned) < MaxCalls
    /\ matches' = HoseLoop(balflex_products, heizmann_products, 1, matches)
    /\ returned' = Append(returned, matches')
    /\ balflex_products' = <<>>
    /\ UNCHANGED <<script, heizmann_products, scored>>
    /\ UNCHANGED exceptHose

\* one call matcher.match_products()
match_products ==
    /\ script = "product_matcher"
    /\ Len(returned) < MaxCalls
    /\ matches' = HoseLoop(balflex_products, heizmann_products, 1, matches)
    /\ returned' = Append(returned, matches')
    /\ UNCHANGED <<script, balflex_products, heizmann_products, scored>>
    /\ UNCHANGED exceptHose

\* one call matcher._calculate_match_score(balflex_products[i], heizmann_products[j])
CalculateMatchScore ==
    /\ script = "hose_scorer"
    /\ \E i \in 1..Len(balflex_products), j \in 1..Len(heizmann_products) :
          IF HoseScorerRaises(balflex_products[i], heizmann_products[j])
          THEN scored' = [b |-> i, h |-> j, raised |-> TRUE, score |-> 0, reasons |-> <<>>]
          ELSE \E r \in {_calculate_match_score(balflex_products[i], heizmann_products[j])} :
                  scored' = [b |-> i, h |-> j, raised |-> FALSE,
                             score |-> r.score, reasons |-> r.reasons]
    /\ UNCHANGED <<script, balflex_products, heizmann_products, matches, returned>>
    /\ UNCHANGED exceptHose

\* one call match_products(heizmann_data, balflex_data, min_threshold=t)
FitMatchProducts ==
    /\ script = "match_pressarmaturen"
    /\ ~fit_out.done
    /\ \E t \in Thresholds :
          \E out \in {fit_match_products(heizmann_data, balflex_data, t)} :
              /\ min_threshold' = t
              /\ fit_out' = [done |-> TRUE, matches |-> out.matches,
                             rejected_counts |-> out.rejected_counts]
    /\ UNCHANGED <<script, heizmann_data, balflex_data, fit_scored>>
    /\ UNCHANGED exceptFit

\* one call calculate_match_score(heizmann_data[i], balflex_data[j]) of WITH_SERIES
FitCalculateMatchScore ==
    /\ script = "fitting_scorer"
    /\ \E i \in 1..Len(heizmann_data), j \in 1..Len(balflex_data) :
          \E r \in {calculate_match_score(heizmann_data[i], balflex_data[j])} :
             fit_scored' = [variant |-> "WITH_SERIES", h |-> i, b |-> j,
                            raised |-> FALSE, score |-> r.score,
                            reasons |-> r.reasons, warnings |-> r.warnings]
    /\ UNCHANGED <<script, heizmann_data, balflex_data, min_threshold, fit_out>>
    /\ UNCHANGED exceptFit

\* one call calculate_match_score(heizmann_data[i], balflex_data[j]) of IMPROVED
ImprovedCalculateMatchScore ==
    /\ script = "fitting_scorer"
    /\ \E i \in 1..Len(heizmann_data), j \in 1..Len(balflex_data) :
          \E r \in {improved_calculate_match_score(heizmann_data[i], balflex_data[j])} :
             fit_scored' = [variant |-> "IMPROVED", h |-> i, b |-> j,
                            raised |-> r.raised, score |-> r.score,
                            reasons |-> r.reasons, warnings |-> <<>>]
    /\ UNCHANGED <<script, heizmann_data, balflex_data, min_threshold, fit_out>>
    /\ UNCHANGED exceptFit

\* one call fix_hose_size_from_dash(product)
FixHoseSizeFromDash ==
    /\ script = "fix_balflex_hose_sizes"
    /\ ~fixed.done
    /\ \E r \in {fix_hose_size_from_dash(product)} :
          fixed' = [done |-> TRUE, mm |-> r.mm, source |-> r.source, data |-> r.data]
    /\ UNCHANGED <<script, product>>
    /\ UNCHANGED exceptDash

\* how a step of main() can end: its try block completes or raises
StepOutcomes == {"ok", "raised"}

\* where main() goes after a step: on to the next step, or "return"
AfterStep(outcome, next) == IF outcome = "ok" THEN next ELSE "returned"

\* an entry of the run's log: the step, how its try block ended, the
\* number of Matches the step left in product_matches.json, and whether
\* the step wrote the Excel file
LogEntry(step, outcome, n, written) ==
    [step |-> step, outcome |-> outcome, matches |-> n, written |-> written]

\* "Step 1: Parse Balflex catalog": return if the catalog file is missing
\* or if BalflexPDFParser raises
MainStep1 ==
    /\ script = "main"
    /\ main_pc = "step1"
    /\ \E outcome \in StepOutcomes \cup {"missing"} :
          /\ main_log' = Append(main_log, LogEntry("balflex", outcome, 0, FALSE))
          /\ main_pc' = AfterStep(outcome, "step2")
    /\ UNCHANGED script
    /\ UNCHANGED exceptMain

\* "Step 2: Scrape Heizmann website": return if HeizmannScraper raises
MainStep2 ==
    /\ script = "main"
    /\ main_pc = "step2"
    /\ \E outcome \in StepOutcomes :
          /\ main_log' = Append(main_log, LogEntry("heizmann", outcome, 0, FALSE))
          /\ main_pc' = AfterStep(outcome, "step3")
    /\ UNCHANGED script
    /\ UNCHANGED exceptMain

\* "Step 3: Match products": match_products returns n Matches, which
\* save_to_json writes; return if ProductMatcher raises
MainStep3 ==
    /\ script = "main"
    /\ main_pc = "step3"
    /\ \E outcome \in StepOutcomes, n \in 0..MaxLen :
          /\ outcome = "raised" => n = 0
          /\ main_log' = Append(main_log, LogEntry("match", outcome, n, FALSE))
          /\ main_pc' = AfterStep(outcome, "step4")
    /\ UNCHANGED script
    /\ UNCHANGED exceptMain

\* the number of Matches that ExcelGenerator._load_matches reads
LoadedMatches(log) == log[Len(log)].matches

\* ExcelGenerator.generate_excel on n loaded Matches: "No matches to
\* export!" and a plain return for none; otherwise the file is written,
\* or pandas / openpyxl raises before or after df.to_excel wrote it
generate_excel(n) ==
    IF n = 0
    THEN {[outcome |-> "ok", written |-> FALSE]}
    ELSE {[outcome |-> "ok", written |-> TRUE],
          [outcome |-> "raised", written |-> FALSE],
          [outcome |-> "raised", written |-> TRUE]}

\* "Step 4: Generate Excel report", then "PIPELINE COMPLETED SUCCESSFULLY"
\* and the summary
MainStep4 ==
    /\ script = "main"
    /\ main_pc = "step4"
    /\ \E r \in generate_excel(LoadedMatches(main_log)) :
          /\ main_log' = Append(main_log, LogEntry("excel", r.outcome, 0, r.written))
          /\ main_pc' = AfterStep(r.outcome, "completed")
    /\ UNCHANGED script
    /\ UNCHANGED exceptMain

\* one call self._parse_product_table(table, model_name, standard, page_num)
ParseProductTable ==
    /\ script = "balflex_pdf_parser"
    /\ ~extracted.done
    /\ \E r \in {_parse_product_table(extract_from.table, extract_from.model_name,
                                       extract_from.standard)} :
          extracted' = [done |-> TRUE, raised |-> r.raised, products |-> r.products,
                        standard |-> extract_from.standard]
    /\ UNCHANGED <<script, extract_from>>
    /\ UNCHANGED exceptExtract

\* one call self._parse_page(page, page_num) of BalflexFittingsParser
ParsePage ==
    /\ script = "balflex_fittings_parser"
    /\ ~extracted.done
    /\ \E r \in {_parse_page(extract_from)} :
          extracted' = [done |-> TRUE, raised |-> FALSE, products |-> r,
                        standard |-> <<>>]
    /\ UNCHANGED <<script, extract_from>>
    /\ UNCHANGED exceptExtract

\* _scrape_product_page on one row: _extract_standard_from_page, then
\* _extract_variant_from_cells
ScrapeRow ==
    /\ script = "heizmann_scraper"
    /\ ~extracted.done
    /\ \E r \in {scrape_row(extract_from)} :
          extracted' = [done |-> TRUE, raised |-> FALSE,
                        products |-> IF r.keys # {} THEN <<r>> ELSE <<>>,
                        standard |-> _extract_standard_from_page(extract_from.page_text,
                                                                 extract_from.model_name)]
    /\ UNCHANGED <<script, extract_from>>
    /\ UNCHANGED exceptExtract

\* one call parser.parse() of a BalflexParser
BalflexParserParse ==
    /\ script = "balflex_parser"
    /\ ~extracted.done
    /\ \E r \in {balflex_parse(extract_from)} :
          extracted' = [done |-> TRUE, raised |-> r.raised, products |-> r.products,
                        standard |-> <<>>]
    /\ UNCHANGED <<script, extract_from>>
    /\ UNCHANGED exceptExtract

\* one pass of a loop body of add_angle_information.main
AddAngle ==
    /\ script = "add_angle_information"
    /\ ~enriched.done
    /\ \E r \in {add_angle(enrich_in)} : enriched' = [done |-> TRUE, product |-> r]
    /\ UNCHANGED <<script, enrich_in>>
    /\ UNCHANGED exceptEnrich

\* one pass of a loop body of add_series_from_lookup.main
AddSeries ==
    /\ script = "add_series_from_lookup"
    /\ ~enriched.done
    /\ \E r \in {add_series(enrich_in)} : enriched' = [done |-> TRUE, product |-> r]
    /\ UNCHANGED <<script, enrich_in>>
    /\ UNCHANGED exceptEnrich

\* one pass of the loop body of process_balflex_standards
ProcessStandards ==
    /\ script = "process_balflex_standards_IMPROVED"
    /\ ~enriched.done
    /\ \E r \in {process_balflex_standards(enrich_in)} :
          enriched' = [done |-> TRUE, product |-> r]
    /\ UNCHANGED <<script, enrich_in>>
    /\ UNCHANGED exceptEnrich

\* one call matcher.match() of a FittingsMatcher
FittingsMatch ==
    /\ script = "match_fittings"
    /\ ~fittings_out.done
    /\ \E out \in {fittings_match(balflex_fittings, heizmann_fittings)} :
          fittings_out' = [done |-> TRUE, matches |-> out]
    /\ UNCHANGED <<script, balflex_fittings, heizmann_fittings>>
    /\ UNCHANGED exceptFittings

Next ==
    \/ match_products
    \/ CalculateMatchScore
    \/ FitMatchProducts
    \/ FitCalculateMatchScore
    \/ ImprovedCalculateMatchScore
    \/ FixHoseSizeFromDash
    \/ MainStep1
    \/ MainStep2
    \/ MainStep3
    \/ MainStep4
    \/ ParseProductTable
    \/ ParsePage
    \/ ScrapeRow
    \/ BalflexParserParse
    \/ AddAngle
    \/ AddSeries
    \/ ProcessStandards
    \/ FittingsMatch

Spec == Init /\ [][Next]_vars

-----------------------------------------------------------------------------
(* Properties *)

\* the hose records of a direct scorer call
ScoredBalflex == balflex_products[1]
ScoredHeizmann == heizmann_products[1]
HoseScored == script = "hose_scorer" /\ scored.b # 0 /\ ~scored.raised

\* the fitting records of a direct scorer call
ScoredFitHeizmann == heizmann_data[1]
ScoredFitBalflex == balflex_data[1]
FitScored(variant) == script = "fitting_scorer" /\ fit_scored.variant = variant

\* the construction families the Gate speaks of
IsTextile(d) == Contains(<<"t","e","x","t","i","l","e">>, lower(Get(d, "construction", <<>>)))
IsWire(d) == Contains(<<"w","i","r","e">>, lower(Get(d, "construction", <<>>)))
IsSpiral(d) == Contains(<<"s","p","i","r","a","l">>, lower(Get(d, "construction", <<>>)))
HasConstruction(d) == Get(d, "construction", <<>>) # <<>>

\* the hose Gate rejects the pair: both have a construction, and one is
\* textile and the other wire, or exactly one is spiral
HoseGateRejects(b, h) ==
    /\ HasConstruction(b) /\ HasConstruction(h)
    /\ \/ IsTextile(b) /\ IsWire(h)
       \/ IsWire(b) /\ IsTextile(h)
       \/ IsSpiral(b) # IsSpiral(h)

\* the fitting Gate rejects the pair: angle, series or normalized standard
\* known on both sides and different
Differ(x, y, none) == x # none /\ y # none /\ x # y
FitGateRejects(h, b) ==
    \/ Differ(Get(h, "angle", ""), Get(b, "angle", ""), "")
    \/ Differ(Get(h, "series", ""), Get(b, "series", ""), "")
    \/ Differ(normalize_standard(Get(h, "standard", <<>>)),
              normalize_standard(Get(b, "standard", <<>>)), <<>>)

GateMessages == {"Construction mismatch: textile vs wire - INCOMPATIBLE",
                 "Construction mismatch: wire vs textile - INCOMPATIBLE",
                 "Construction mismatch: spiral vs non-spiral - INCOMPATIBLE"}
RejectionWarnings == {"ANGLE MISMATCH", "SERIES MISMATCH", "STANDARD MISMATCH"}

\* C1 (as claimed): every call of match_products on one ProductMatcher
\* object returns the Match list that the first call returned.
C1_Determinism ==
    \A k \in 1..Len(returned) : returned[k] = returned[1]

\* C2 (as claimed): on a pair the Gate rejects, the scorer (hose, and
\* fitting WITH_SERIES) returns score 0 and an empty reasons list.
C2_RejectEmptyReasons ==
    /\ (HoseScored /\ HoseGateRejects(ScoredBalflex, ScoredHeizmann))
          => (scored.score = 0 /\ scored.reasons = <<>>)
    /\ (FitScored("WITH_SERIES") /\ FitGateRejects(ScoredFitHeizmann, ScoredFitBalflex))
          => (fit_scored.score = 0 /\ fit_scored.reasons = <<>>)

\* C2 (amended): on a pair the Gate rejects the score is exactly 0; the
\* fitting scorer returns no reason (and one rejection warning), the hose
\* scorer returns exactly one reason, the construction mismatch message.
C2_RejectScoreZero ==
    /\ (HoseScored /\ HoseGateRejects(ScoredBalflex, ScoredHeizmann))
          => /\ scored.score = 0
             /\ Len(scored.reasons) = 1
             /\ scored.reasons[1] \in GateMessages
    /\ (FitScored("WITH_SERIES") /\ FitGateRejects(ScoredFitHeizmann, ScoredFitBalflex))
          => /\ fit_scored.score = 0
             /\ fit_scored.reasons = <<>>
             /\ Len(fit_scored.warnings) = 1
             /\ fit_scored.warnings[1] \in RejectionWarnings

\* C2 witness: the hose scorer has scored a wire-braid Balflex record
\* against a textile Heizmann record
C2_Witness ==
    /\ HoseScored
    /\ IsWire(ScoredBalflex) /\ IsTextile(ScoredHeizmann)
    /\ ~IsSpiral(ScoredBalflex) /\ ~IsSpiral(ScoredHeizmann)
    /\ scored.score = 0

\* C3 (as claimed): every score a scorer variant returns is in 0..100.
C3_ScoreBounded ==
    /\ HoseScored => (0 <= scored.score /\ scored.score <= 100)
    /\ (script = "fitting_scorer" /\ fit_scored.variant # "" /\ ~fit_scored.raised)
          => (0 <= fit_scored.score /\ fit_scored.score <= 100)

\* a record that states its working pressure in MPa only
OnlyMPa(d) ==
    /\ "working_pressure_mpa" \in d.keys
    /\ "working_pressure_bar" \notin d.keys
    /\ d.working_pressure_mpa # 0

\* the same record stating that pressure in bar: 10 * P
InBar(d) ==
    [d EXCEPT !.keys = (@ \ {"working_pressure_mpa"}) \cup {"working_pressure_bar"},
              !.working_pressure_bar = 10 * d.working_pressure_mpa,
              !.working_pressure_mpa = 0]

SameOutcome(r) == r.score = scored.score /\ r.reasons = scored.reasons

\* C4: a record stating its pressure as 10*P bar earns the score and the
\* reasons of the same record stating P MPa, on either side of the pair;
\* and P MPa against 10*P bar earns the full 25 pressure points.
C4_PressureUnitInvariance ==
    HoseScored =>
        /\ OnlyMPa(ScoredBalflex)
              => /\ SameOutcome(_calculate_match_score(InBar(ScoredBalflex), ScoredHeizmann))
                 /\ PressurePoints(InBar(ScoredBalflex), ScoredHeizmann)
                      = PressurePoints(ScoredBalflex, ScoredHeizmann)
        /\ OnlyMPa(ScoredHeizmann)
              => /\ SameOutcome(_calculate_match_score(ScoredBalflex, InBar(ScoredHeizmann)))
                 /\ PressurePoints(ScoredBalflex, InBar(ScoredHeizmann))
                      = PressurePoints(ScoredBalflex, ScoredHeizmann)
        /\ (OnlyMPa(ScoredBalflex) /\ OnlyMPa(ScoredHeizmann)
            /\ ScoredBalflex.working_pressure_mpa = ScoredHeizmann.working_pressure_mpa)
              => /\ PressurePoints(InBar(ScoredBalflex), ScoredHeizmann).pts = 25
                 /\ PressurePoints(ScoredBalflex, InBar(ScoredHeizmann)).pts = 25

\* C4 witness: 35 MPa has been scored against 35 MPa, so that 350 bar
\* against 35 MPa is compared with it
C4_Witness ==
    /\ HoseScored
    /\ OnlyMPa(ScoredBalflex) /\ ScoredBalflex.working_pressure_mpa = 3500
    /\ OnlyMPa(ScoredHeizmann) /\ ScoredHeizmann.working_pressure_mpa = 3500
    /\ "Pressure match" \in { scored.reasons[k] : k \in 1..Len(scored.reasons) }

\* the dash_size cell without its spaces and leading '-'
WrittenCode(dash) ==
    LET c == RemoveSpaces(dash)
    IN  IF c # <<>> /\ Head(c) = "-" THEN Tail(c) ELSE c
IsTableCode(dash) == \E k \in 1..Len(DashCodes) : DashCodes[k] = WrittenCode(dash)

\* C5: for a dash_size that is a code of the SAE table, in any written
\* form, fix_hose_size_from_dash returns the table value with source
\* 'dash_code', whatever hose_size_mm and hose_size_inch hold; -10 gives
\* 15.9 mm and -4 gives 6.4 mm.
C5_DashLookupExact ==
    (fixed.done /\ IsTableCode(product.dash_size)) =>
        /\ fixed.source = "dash_code"
        /\ fixed.mm = Lookup(DASH_TO_MM, WrittenCode(product.dash_size))
        /\ WrittenCode(product.dash_size) = <<"1","0">> => fixed.mm = 1590
        /\ WrittenCode(product.dash_size) = <<"4">> => fixed.mm = 640

\* C5 witness: dash "- 10" fixed to 15.9 mm although the product carries
\* another hose_size_mm and an inch size
C5_Witness ==
    /\ fixed.done
    /\ product.dash_size = <<"-"," ","1","0">>
    /\ product.hose_size_mm = <<"9","9",".","0">>
    /\ product.hose_size_inch # <<>>
    /\ fixed.mm = 1590

\* the reasons of the direct hose scorer call, as a set
ScoredReasons == { scored.reasons[k] : k \in 1..Len(scored.reasons) }

\* the EN family code written in a record's standard
FamilyCode(d, code) ==
    LET std == upper(Get(d, "standard", <<>>))
    IN  \E i \in 1..Len(std) :
           /\ StartsAt(std, i, <<"E","N">>)
           /\ StartsAt(std, SkipSpaces(std, i + 2), code)
           /\ \A k \in 1..(i - 1) : ~StartsAt(std, k, <<"E","N">>)
Is853(d) == FamilyCode(d, <<"8","5","3">>)
Is857(d) == FamilyCode(d, <<"8","5","7">>)
Pair853And857(b, h) == (Is853(b) /\ Is857(h)) \/ (Is857(b) /\ Is853(h))

\* C6: a pair with EN family codes 853 and 857 gets no 'Standard match'
\* reason and fewer than the 20 standard points.
C6_StandardFamilyPrecision ==
    (HoseScored /\ Pair853And857(ScoredBalflex, ScoredHeizmann)) =>
        /\ "Standard match" \notin ScoredReasons
        /\ StandardPoints(ScoredBalflex, ScoredHeizmann).pts < 20
        /\ "Standard match" \notin
              { StandardPoints(ScoredBalflex, ScoredHeizmann).rs[k] :
                  k \in 1..Len(StandardPoints(ScoredBalflex, ScoredHeizmann).rs) }

\* C6 witness: 'DIN EN 853 1SN' has been scored against 'DIN EN 857 2SC',
\* with the Gate passed
C6_Witness ==
    /\ HoseScored
    /\ ScoredBalflex.standard = <<"D","I","N"," ","E","N"," ","8","5","3"," ","1","S","N">>
    /\ ScoredHeizmann.standard = <<"D","I","N"," ","E","N"," ","8","5","7"," ","2","S","C">>
    /\ "Standard compatible" \in ScoredReasons

\* the greatest element of a set of scores, 0 for the empty set
SetMax(S) == IF S = {} THEN 0 ELSE CHOOSE m \in S : \A x \in S : x <= m

\* the maximum score of a source record over the target list
BestHoseScore(s, targets) ==
    SetMax({ _calculate_match_score(s, targets[j]).score : j \in 1..Len(targets) })
BestFitScore(s, targets) ==
    SetMax({ calculate_match_score(s, targets[j]).score : j \in 1..Len(targets) })

\* match_products has emitted a Match for the source record
HoseEmitted(s) ==
    \E k \in 1..Len(matches) : matches[k].balflex_reference = s.reference
FitEmitted(s) ==
    \E k \in 1..Len(fit_out.matches) : fit_out.matches[k].Heizmann_Reference = s.reference

HoseRan == script = "product_matcher" /\ returned # <<>>
FitRan == script = "match_pressarmaturen" /\ fit_out.done

ScenarioFields(d) ==
    /\ Get(d, "dn", <<>>) = <<"D","N","1","2">>
    /\ Get(d, "standard", <<>>) = <<"D","I","N"," ","E","N"," ","8","5","7"," ","2","S","C">>
    /\ Get(d, "construction", <<>>) = <<"2"," ","w","i","r","e"," ","b","r","a","i","d">>
    /\ "inner_diameter_mm" \notin d.keys
ScenarioSource(d) ==
    ScenarioFields(d) /\ OnlyMPa(d) /\ d.working_pressure_mpa = 2500
ScenarioTarget(d) ==
    /\ ScenarioFields(d)
    /\ "working_pressure_bar" \in d.keys /\ d.working_pressure_bar = 25000
ScenarioReasons == <<"DN match", "Pressure match", "Standard match", "Construction match">>

\* the scorer's part of the scenario: Gate passed, +30 +25 +20 +15, score 90
ScenarioScore(b, h) ==
    /\ ConstructionGate(lower(b.construction), lower(h.construction)) = ""
    /\ DnPoints(b, h).pts = 30
    /\ PressurePoints(b, h).pts = 25
    /\ StandardPoints(b, h).pts = 20
    /\ ConstructionPoints(b, h).pts = 15
    /\ _calculate_match_score(b, h) = [score |-> 90, reasons |-> ScenarioReasons]

\* the Match entries of the scenario source when the scenario target is the target list
ScenarioEntries(quality) ==
    (HoseRan /\ Len(heizmann_products) = 1 /\ ScenarioTarget(heizmann_products[1])) =>
        \A i \in 1..Len(balflex_products) :
            ScenarioSource(balflex_products[i]) =>
                /\ HoseEmitted(balflex_products[i])
                /\ \A k \in 1..Len(matches) :
                      matches[k].balflex_reference = balflex_products[i].reference =>
                          /\ matches[k].match_score = 90
                          /\ matches[k].match_quality = quality
                          /\ matches[k].heizmann_reference = heizmann_products[1].reference

ScenarioScored ==
    (HoseScored /\ ScenarioSource(ScoredBalflex) /\ ScenarioTarget(ScoredHeizmann)) =>
        /\ ScenarioScore(ScoredBalflex, ScoredHeizmann)
        /\ scored.score = 90

\* C8 (as claimed): the scenario pair passes the Gate, earns +30 +25 +20
\* +15, scores 90 and its Match entry carries quality "Excellent".
C8_ScenarioExcellent == ScenarioScored /\ ScenarioEntries("Excellent")

\* C8 (amended): the scenario pair passes the Gate, earns +30 +25 +20 +15,
\* scores 90 and its Match entry carries quality "Excellent Match".
C8_ScenarioExcellentMatch == ScenarioScored /\ ScenarioEntries("Excellent Match")

\* C8 witness: the Matcher has run over the scenario source and target
\* and emitted the Match
C8_Witness ==
    /\ HoseRan
    /\ Len(heizmann_products) = 1 /\ ScenarioTarget(heizmann_products[1])
    /\ \E i \in 1..Len(balflex_products) :
          /\ ScenarioSource(balflex_products[i])
          /\ HoseEmitted(balflex_products[i])

\* C9: a pair of hose records the construction Gate rejects scores 0, and
\* no Match of match_products joins two such records.
C9_HoseGate ==
    /\ (HoseScored /\ HoseGateRejects(ScoredBalflex, ScoredHeizmann)) => scored.score = 0
    /\ script = "product_matcher" =>
          \A k \in 1..Len(matches) :
             \A i \in 1..Len(balflex_products), j \in 1..Len(heizmann_products) :
                (/\ matches[k].balflex_reference = balflex_products[i].reference
                 /\ matches[k].heizmann_reference = heizmann_products[j].reference)
                   => ~HoseGateRejects(balflex_products[i], heizmann_products[j])

\* C9 witness: the Matcher has run over a spiral and a non-spiral record
\* of the same DN, with a Match emitted for another source
C9_Witness ==
    /\ HoseRan
    /\ matches # <<>>
    /\ \E i \in 1..Len(balflex_products), j \in 1..Len(heizmann_products) :
          /\ IsSpiral(balflex_products[i]) # IsSpiral(heizmann_products[j])
          /\ HoseGateRejects(balflex_products[i], heizmann_products[j])
          /\ balflex_products[i].dn = heizmann_products[j].dn
          /\ balflex_products[i].dn # <<>>

\* C10: a pair of fitting records the Gate rejects scores 0 with a
\* rejection warning, and for no min_threshold does a Match of
\* match_products join two such records.
C10_FittingGate ==
    /\ (FitScored("WITH_SERIES") /\ FitGateRejects(ScoredFitHeizmann, ScoredFitBalflex))
          => /\ fit_scored.score = 0
             /\ fit_scored.warnings # <<>>
             /\ fit_scored.warnings[1] \in RejectionWarnings
    /\ FitRan =>
          \A k \in 1..Len(fit_out.matches) :
             \A i \in 1..Len(heizmann_data), j \in 1..Len(balflex_data) :
                (/\ fit_out.matches[k].Heizmann_Reference = heizmann_data[i].reference
                 /\ fit_out.matches[k].Balflex_Reference = balflex_data[j].reference)
                   => ~FitGateRejects(heizmann_data[i], balflex_data[j])

\* C10 witness: match_products has run with min_threshold 0 over a pair
\* that differs in series only, and emitted nothing for it
C10_Witness ==
    /\ FitRan
    /\ min_threshold = 0
    /\ \E i \in 1..Len(heizmann_data) :
          /\ ~FitEmitted(heizmann_data[i])
          /\ \E j \in 1..Len(balflex_data) :
                /\ Differ(Get(heizmann_data[i], "series", ""),
                          Get(balflex_data[j], "series", ""), "")
                /\ Get(heizmann_data[i], "angle", "") = Get(balflex_data[j], "angle", "")

\* an attribute is missing on at least one side
MissingOnASide(x, y, none) == x = none \/ y = none

\* every Gate criterion of the fitting scorer lacks its attribute on a side
FitGateAttributesMissing(h, b) ==
    /\ MissingOnASide(Get(h, "angle", ""), Get(b, "angle", ""), "")
    /\ MissingOnASide(Get(h, "series", ""), Get(b, "series", ""), "")
    /\ MissingOnASide(Get(h, "standard", <<>>), Get(b, "standard", <<>>), <<>>)

\* C11: when every Gate criterion lacks its attribute on at least one
\* side, the Gate proceeds (no rejection reason or warning) and the score
\* is the sum of the points of the other criteria: DN, pressure, standard
\* and diameter for a hose pair, DN and seat type for a fitting pair.
C11_MissingNeverRejects ==
    /\ (HoseScored /\ MissingOnASide(Get(ScoredBalflex, "construction", <<>>),
                                     Get(ScoredHeizmann, "construction", <<>>), <<>>))
          => /\ \A k \in 1..Len(scored.reasons) : scored.reasons[k] \notin GateMessages
             /\ scored.score = DnPoints(ScoredBalflex, ScoredHeizmann).pts
                               + PressurePoints(ScoredBalflex, ScoredHeizmann).pts
                               + StandardPoints(ScoredBalflex, ScoredHeizmann).pts
                               + DiameterPoints(ScoredBalflex, ScoredHeizmann).pts
    /\ (FitScored("WITH_SERIES")
        /\ FitGateAttributesMissing(ScoredFitHeizmann, ScoredFitBalflex))
          => /\ \A k \in 1..Len(fit_scored.warnings) :
                    fit_scored.warnings[k] \notin RejectionWarnings
             /\ fit_scored.score =
                    DnCriterion(Get(ScoredFitHeizmann, "dn", <<>>),
                                Get(ScoredFitBalflex, "hose_size_mm", <<>>)).pts
                    + SeatCriterion(
                          normalize_seat_type(Get(ScoredFitHeizmann, "seat_type", <<>>)),
                          normalize_seat_type(Get(ScoredFitBalflex, "seat_type", <<>>))).pts

\* C11 witness: a hose record without construction has been scored against
\* one with a construction and earned points
C11_Witness ==
    /\ HoseScored
    /\ ~HasConstruction(ScoredBalflex) /\ HasConstruction(ScoredHeizmann)
    /\ scored.score > 0

\* the first position of the target list where the source attains score m
FirstHoseAt(s, targets, m) ==
    CHOOSE j \in 1..Len(targets) :
        /\ _calculate_match_score(s, targets[j]).score = m
        /\ \A k \in 1..(j - 1) : _calculate_match_score(s, targets[k]).score # m
FirstFitAt(s, targets, m) ==
    CHOOSE j \in 1..Len(targets) :
        /\ calculate_match_score(s, targets[j]).score = m
        /\ \A k \in 1..(j - 1) : calculate_match_score(s, targets[k]).score # m

\* C12: the Match emitted for a source record references the first record
\* of the target list among those that attain the source's maximum score.
C12_FirstSeenTieBreak ==
    /\ HoseRan => \A i \in 1..Len(balflex_products), k \in 1..Len(matches) :
          matches[k].balflex_reference = balflex_products[i].reference =>
             matches[k].heizmann_reference =
                heizmann_products[
                    FirstHoseAt(balflex_products[i], heizmann_products,
                                BestHoseScore(balflex_products[i], heizmann_products))
                ].reference
    /\ FitRan => \A i \in 1..Len(heizmann_data), k \in 1..Len(fit_out.matches) :
          fit_out.matches[k].Heizmann_Reference = heizmann_data[i].reference =>
             fit_out.matches[k].Balflex_Reference =
                balflex_data[
                    FirstFitAt(heizmann_data[i], balflex_data,
                               BestFitScore(heizmann_data[i], balflex_data))
                ].reference

\* C12 witness: two target records tie at the maximum score of a source
\* record and the Match references the first of them
C12_Witness ==
    /\ HoseRan
    /\ Len(heizmann_products) = 2
    /\ heizmann_products[1].reference # heizmann_products[2].reference
    /\ \E i \in 1..Len(balflex_products) :
          /\ _calculate_match_score(balflex_products[i], heizmann_products[1]).score
                = _calculate_match_score(balflex_products[i], heizmann_products[2]).score
          /\ \E k \in 1..Len(matches) :
                /\ matches[k].balflex_reference = balflex_products[i].reference
                /\ matches[k].heizmann_reference = heizmann_products[1].reference

\* the Matches of a list that belong to one source record
HoseMatchesOf(list, s) ==
    LET Mine(e) == e.balflex_reference = s.reference IN SelectSeq(list, Mine)
FitMatchesOf(list, s) ==
    LET Mine(e) == e.Heizmann_Reference = s.reference IN SelectSeq(list, Mine)

\* C13: the Matches a run emits for a source record are those of a run
\* over that source record alone with the same target list, whatever the
\* other source records of the list are.
C13_IndependentChoice ==
    /\ HoseRan => \A i \in 1..Len(balflex_products) :
          HoseMatchesOf(returned[1], balflex_products[i])
             = HoseLoop(<<balflex_products[i]>>, heizmann_products, 1, <<>>)
    /\ FitRan => \A i \in 1..Len(heizmann_data) :
          FitMatchesOf(fit_out.matches, heizmann_data[i])
             = fit_match_products(<<heizmann_data[i]>>, balflex_data, min_threshold).matches

\* C13 witness: the Matches of two source records reference the same
\* target record
C13_Witness ==
    /\ HoseRan
    /\ Len(returned[1]) = 2
    /\ returned[1][1].balflex_reference # returned[1][2].balflex_reference
    /\ returned[1][1].heizmann_reference = returned[1][2].heizmann_reference

\* the first Gate criterion, in the order angle, series, standard, on which
\* a fitting pair fails; "none" for a pair that passes the Gate
FirstFailing(h, b) ==
    IF Differ(Get(h, "angle", ""), Get(b, "angle", ""), "") THEN "angle"
    ELSE IF Differ(Get(h, "series", ""), Get(b, "series", ""), "") THEN "series"
    ELSE IF Differ(normalize_standard(Get(h, "standard", <<>>)),
                   normalize_standard(Get(b, "standard", <<>>)), <<>>) THEN "standard"
    ELSE "none"

\* the number of (source, target) pairs of the run that fail first on c
RejectedOn(c) ==
    Cardinality({ p \in (1..Len(heizmann_data)) \X (1..Len(balflex_data)) :
                     FirstFailing(heizmann_data[p[1]], balflex_data[p[2]]) = c })

\* C14: when the fitting match run finishes, angle_mismatch,
\* series_mismatch and standard_mismatch each equal the number of pairs
\* whose first failing Gate criterion is that one; a pair that passes the
\* Gate is counted in none of them.
C14_RejectionStatistics ==
    FitRan =>
       /\ fit_out.rejected_counts.angle_mismatch = RejectedOn("angle")
       /\ fit_out.rejected_counts.series_mismatch = RejectedOn("series")
       /\ fit_out.rejected_counts.standard_mismatch = RejectedOn("standard")

\* C14 witness: a finished run with a pair rejected on series, a pair
\* rejected on another criterion and a pair that passed the Gate
C14_Witness ==
    /\ FitRan
    /\ fit_out.rejected_counts.series_mismatch > 0
    /\ fit_out.rejected_counts.angle_mismatch
          + fit_out.rejected_counts.standard_mismatch > 0
    /\ RejectedOn("none") > 0

\* main() has ended, by a return or by reaching the summary
MainEnded == script = "main" /\ main_pc \in {"returned", "completed"}

\* the extraction step began / ended without result in this run of main()
StepBegan(step) == \E k \in 1..Len(main_log) : main_log[k].step = step
StepFailed(step) ==
    \E k \in 1..Len(main_log) : main_log[k].step = step /\ main_log[k].outcome # "ok"

\* C15 (as claimed): in a finished run of main(), a failed Balflex
\* extraction step has not kept the Heizmann extraction step from running,
\* and a failed Heizmann extraction step has not kept the Balflex
\* extraction step from running.
C15_IndependentExtraction ==
    MainEnded =>
       /\ StepFailed("balflex") => StepBegan("heizmann")
       /\ StepFailed("heizmann") => StepBegan("balflex")

\* an extractor has parsed its table, page or row
Extracted(parser) == script = parser /\ extracted.done

\* the header tokens of a product table: a reference column and a size column
HasReferenceToken(text) == Contains(<<"R","E","F","E","R","E","N","C","E">>, upper(text))
HasSizeToken(text) ==
    \/ Contains(<<"D","N">>, upper(text))
    \/ Contains(<<"D","A","S","H">>, upper(text))
    \/ Contains(<<"I","N","C","H">>, upper(text))
    \/ Contains(<<"M","M">>, upper(text))
HasHeaderTokens(text) == HasReferenceToken(text) /\ HasSizeToken(text)

\* C16 (as claimed): a table (BalflexPDFParser) or page
\* (BalflexFittingsParser) whose text has no header token set, a size
\* column token and a reference column token, yields no Product record,
\* and the parser does not raise.
C16_NonProductPagesYieldNothing ==
    /\ (Extracted("balflex_pdf_parser")
        /\ ~HasHeaderTokens(TableText(extract_from.table, Len(extract_from.table))))
          => (~extracted.raised /\ extracted.products = <<>>)
    /\ (Extracted("balflex_fittings_parser") /\ ~HasHeaderTokens(PageText(extract_from)))
          => (~extracted.raised /\ extracted.products = <<>>)

\* the size indicators and the identifiers of a Product record
HasSizeIndicator(p) ==
    \/ Get(p, "dn", <<>>) # <<>>
    \/ Get(p, "dash_size", <<>>) # <<>>
    \/ Get(p, "inch_size", <<>>) # <<>>
    \/ Get(p, "hose_size_inch", <<>>) # <<>>
    \/ Get(p, "hose_size_mm", <<>>) # <<>>
HasIdentifier(p) ==
    Get(p, "article_number", <<>>) # <<>> \/ Get(p, "reference", <<>>) # <<>>

\* C17 (as claimed): every Product record that an extractor emits has a
\* non-empty size indicator and a non-empty identifier, and no row makes
\* the extractor raise.
C17_MinimumAcceptance ==
    extracted.done =>
       /\ ~extracted.raised
       /\ \A k \in 1..Len(extracted.products) :
             HasSizeIndicator(extracted.products[k]) /\ HasIdentifier(extracted.products[k])

\* the numeric family codes of the two scored standards differ: both have
\* an EN number, or both have an SAE 100R number, and the numbers are not
\* the same
NumericCodesDiffer(balflex_std, heizmann_std) ==
    \/ /\ re_search_EN(balflex_std) # NoMatch
       /\ re_search_EN(heizmann_std) # NoMatch
       /\ re_search_EN(balflex_std) # re_search_EN(heizmann_std)
    \/ /\ re_search_SAE(balflex_std) # NoMatch
       /\ re_search_SAE(heizmann_std) # NoMatch
       /\ re_search_SAE(balflex_std) # re_search_SAE(heizmann_std)

\* C18 (as claimed): the hose scorer never awards the points of a similar
\* standard, found by substring containment, to two standards whose
\* numeric family codes differ (SAE 100R1 against SAE 100R12).
C18_FullCodeComparison ==
    (HoseScored
     /\ NumericCodesDiffer(upper(Get(ScoredBalflex, "standard", <<>>)),
                           upper(Get(ScoredHeizmann, "standard", <<>>))))
       => \A k \in 1..Len(scored.reasons) : scored.reasons[k] # "Standard similar"

\* C19 (as claimed): ProductMatcher._calculate_match_score and
\* calculate_match_score of match_pressarmaturen_IMPROVED return a value
\* and do not raise, on records whose optional fields are absent, null or
\* of the type the extractors write.
C19_ScorersTotal ==
    /\ (script = "hose_scorer" /\ scored.b # 0) => ~scored.raised
    /\ FitScored("IMPROVED") => ~fit_scored.raised

\* every variant emitted for the scraped row has this construction
VariantConstruction(construction) ==
    \A k \in 1..Len(extracted.products) : extracted.products[k].construction = construction

\* C20 (as claimed): for a Heizmann model name with the designation R12
\* or R13 the standard is SAE 100R12 or SAE 100R13 and the construction is
\* spiral wire; for R16 neither is taken from the 'R1' entry (SAE 100R1,
\* 1 wire braid).
C20_MostSpecificRule ==
    Extracted("heizmann_scraper") =>
       /\ Contains(<<"R","1","2">>, clean_model(extract_from.model_name))
             => (extracted.standard = <<"S","A","E"," ","1","0","0","R","1","2">> /\ VariantConstruction(<<"s","p","i","r","a","l"," ","w","i","r","e">>))
       /\ Contains(<<"R","1","3">>, clean_model(extract_from.model_name))
             => (extracted.standard = <<"S","A","E"," ","1","0","0","R","1","3">> /\ VariantConstruction(<<"s","p","i","r","a","l"," ","w","i","r","e">>))
       /\ Contains(<<"R","1","6">>, clean_model(extract_from.model_name))
             => (extracted.standard # <<"S","A","E"," ","1","0","0","R","1">>
                 /\ \A k \in 1..Len(extracted.products) :
                       extracted.products[k].construction # <<"1"," ","w","i","r","e"," ","b","r","a","i","d">>)


\* C22: a match_products call leaves balflex_products and
\* heizmann_products as they were: same length, same order and the same
\* field values in every record.
C22_InputsImmutable ==
    [][script = "product_matcher"
          => /\ balflex_products' = balflex_products
             /\ heizmann_products' = heizmann_products]_vars

\* C22 witness: a call has returned Matches built from records of both
\* lists
C22_Witness ==
    /\ HoseRan
    /\ Len(balflex_products) = MaxLen
    /\ Len(heizmann_products) = MaxLen
    /\ returned[1] # <<>>


\* the labels of the Matches of a list whose score lies in lo..hi
LabelsIn(list, lo, hi) ==
    { list[k].match_quality :
        k \in { n \in 1..Len(list) : list[n].match_score >= lo /\ list[n].match_score <= hi } }

\* C23: every Match that match_products emits has a score of at least 30
\* and is labelled "Excellent Match" iff its score is >= 80, "Good Match"
\* iff 60 <= score < 80, "Fair Match" iff 40 <= score < 60 and "Possible
\* Match" iff 30 <= score < 40.
C23_QualityBands ==
    HoseRan => \A c \in 1..Len(returned) : \A k \in 1..Len(returned[c]) :
       LET e == returned[c][k] IN
          /\ e.match_score >= HoseThreshold
          /\ (e.match_quality = "Excellent Match") = (e.match_score >= 80)
          /\ (e.match_quality = "Good Match") = (e.match_score >= 60 /\ e.match_score < 80)
          /\ (e.match_quality = "Fair Match") = (e.match_score >= 40 /\ e.match_score < 60)
          /\ (e.match_quality = "Possible Match") = (e.match_score >= 30 /\ e.match_score < 40)

\* C23 witness: one call returned a "Good Match" next to a Match of
\* another tier
C23_Witness ==
    /\ HoseRan
    /\ LabelsIn(returned[1], 60, 79) = {"Good Match"}
    /\ LabelsIn(returned[1], 30, 59) \cup LabelsIn(returned[1], 80, 100) # {}


\* the values of the Balflex gender field, "" for a missing one
Genders == {"", "Male", "Female", "Unknown"}

\* values of the Heizmann fields that only determine_gender_heizmann reads
GenderTexts == {<<>>, <<"I","n","n","e","n","g","e","w","i","n","d","e">>, <<"A","u","s","s","e","n","k","e","g","e","l">>, <<"N","i","p","p","e","l">>, <<"M","u","f","f","e">>}

\* the record d with d[key] = val
Having(d, key, val) == [d EXCEPT !.keys = @ \cup {key}, ![key] = val]

\* C24: the score that calculate_match_score (WITH_SERIES) returns for a
\* pair is the score of every pair that differs from it only in the
\* Balflex gender field, or only in a Heizmann field from which the gender
\* is derived (connection_type, identification, model).
C24_GenderValidationOnly ==
    FitScored("WITH_SERIES") =>
       LET h == heizmann_data[fit_scored.h]
           b == balflex_data[fit_scored.b]
       IN  /\ \A g \in Genders :
                calculate_match_score(h, Having(b, "gender", g)).score = fit_scored.score
           /\ \A key \in {"connection_type", "identification", "model"} :
                \A t \in GenderTexts :
                   calculate_match_score(Having(h, key, t), b).score = fit_scored.score

\* C24 witness: a pair with a positive score scored with a gender
\* mismatch warning
C24_Witness ==
    /\ FitScored("WITH_SERIES")
    /\ fit_scored.score > 0
    /\ \E k \in 1..Len(fit_scored.warnings) : fit_scored.warnings[k] = "Gender mismatch"


FittingsRan == script = "match_fittings" /\ fittings_out.done

\* the (Balflex, Heizmann) index pairs that a Match entry joins
JoinedBy(e) ==
    { p \in (1..Len(balflex_fittings)) \X (1..Len(heizmann_fittings)) :
         /\ balflex_fittings[p[1]].reference = e.balflex_reference
         /\ heizmann_fittings[p[2]].article_number = e.heizmann_article }

\* C26: every Match that FittingsMatcher.match emits joins a Balflex
\* fitting and a Heizmann fitting for which _threads_match and
\* _sizes_match both hold.
C26_ThreadAndSizeRequired ==
    FittingsRan => \A k \in 1..Len(fittings_out.matches) :
       \A p \in JoinedBy(fittings_out.matches[k]) :
          /\ _threads_match(balflex_fittings[p[1]].thread_type,
                            heizmann_fittings[p[2]].thread_type)
          /\ _sizes_match(balflex_fittings[p[1]], heizmann_fittings[p[2]])


\* hose_size_mm as fix_balflex_hose_sizes derives it from dash code -n
DashMm(n) == Lookup(DASH_TO_MM, <<"-">> \o ToDigits(n))

\* the pair (h, b) has the DN and the dash-derived hose size of entry k of
\* the dash-to-DN correspondence
DashDnPair(h, b, k) ==
    /\ Get(h, "dn", <<>>) # <<>> /\ Get(b, "hose_size_mm", <<>>) # <<>>
    /\ FloatOf(Get(h, "dn", <<>>)).ok
    /\ FloatOf(Get(h, "dn", <<>>)).val = 100 * dash_to_dn[k][2]
    /\ FloatOf(Get(b, "hose_size_mm", <<>>)).ok
    /\ FloatOf(Get(b, "hose_size_mm", <<>>)).val = DashMm(dash_to_dn[k][1])

\* C28: a pair that passes the Gate, whose Balflex hose_size_mm is
\* DASH_TO_MM[d] and whose Heizmann DN is the DN that corresponds to dash
\* code d, earns the DN exact-match points in calculate_match_score
\* (WITH_SERIES).
C28_DashSizeEarnsExactDn ==
    FitScored("WITH_SERIES") =>
       LET h == heizmann_data[fit_scored.h]
           b == balflex_data[fit_scored.b]
       IN  \A k \in 1..Len(dash_to_dn) :
              (DashDnPair(h, b, k) /\ ~FitGateRejects(h, b))
                 => \E r \in 1..Len(fit_scored.reasons) : fit_scored.reasons[r] = "DN"


\* main() has printed "PIPELINE COMPLETED SUCCESSFULLY"
PrintedSuccess == script = "main" /\ main_pc = "completed"

\* the report-generation step of this run wrote the Excel file
ExcelWritten ==
    \E k \in 1..Len(main_log) : main_log[k].step = "excel" /\ main_log[k].written

\* C29: main() prints "PIPELINE COMPLETED SUCCESSFULLY" only in a run
\* whose report-generation step wrote the Excel file.
C29_SuccessMeansReportWritten == PrintedSuccess => ExcelWritten


\* the lines that _parse_all_product_rows reads, and those of them that
\* are product rows, in order
ParsedLines == european_decimal(extract_from)
RECURSIVE RowLinesFrom(_, _)
RowLinesFrom(lines, i) ==
    IF i > Len(lines) THEN <<>>
    ELSE IF row_match(lines[i]).matched THEN <<i>> \o RowLinesFrom(lines, i + 1)
    ELSE RowLinesFrom(lines, i + 1)

\* the model that a model-header line sets, <<>> for any other line
HeaderModel(line) == TrackModel(line, 1, <<>>)
HeadersUpTo(lines, i) == { j \in 1..i : HeaderModel(lines[j]) # <<>> }
LastOf(set) == CHOOSE j \in set : \A k \in set : k <= j

\* the model that the row at line i is to carry
RunningModel(lines, i) ==
    IF HeadersUpTo(lines, i) # {} THEN HeaderModel(lines[LastOf(HeadersUpTo(lines, i))])
    ELSE _extract_model_from_reference(row_match(lines[i]).groups[1])

BalflexParsed == Extracted("balflex_parser") /\ ~extracted.raised

\* C27 (as claimed): each product row of BalflexParser carries the model
\* of the most recent model-header line at or before it, and a row that no
\* model-header line precedes carries the model derived from its own
\* reference code.
C27_RunningModelContext ==
    BalflexParsed =>
       \A k \in 1..Len(extracted.products) :
          extracted.products[k].model
             = RunningModel(ParsedLines, RowLinesFrom(ParsedLines, 1)[k])

\* a text names a textile designation and no spiral token
TextileDesignations == {<<"1","T","E">>, <<"2","T","E">>, <<"3","T","E">>, <<"T","E","X","T","I","L","E">>}
SpiralTokens == {<<"4","S","P">>, <<"4","S","H">>, <<"S","P","I","R","A","L">>, <<"R","1","2">>, <<"R","1","3">>, <<"R","1","5">>}
IsTextileText(text) ==
    /\ \E t \in TextileDesignations : Contains(t, upper(text))
    /\ \A t \in SpiralTokens : ~Contains(t, upper(text))

\* the text that the extractor's _determine_construction read for product p
ConstructionText(p) ==
    IF script = "balflex_parser" THEN p.reference \o <<" ">> \o p.model
    ELSE IF script = "balflex_pdf_parser"
    THEN extract_from.model_name \o <<" ">> \o extract_from.standard
    ELSE extract_from.model_name \o <<" ">> \o extracted.standard

\* C21 (as claimed): a product of BalflexParser, BalflexPDFParser or
\* HeizmannScraper whose reference, model and standard text names a textile
\* designation (1TE, 2TE, 3TE, TEXTILE) and no spiral token has a
\* construction that contains 'textile'.
C21_TextileFamily ==
    (\/ Extracted("balflex_parser")
     \/ Extracted("balflex_pdf_parser")
     \/ Extracted("heizmann_scraper")) =>
       \A k \in 1..Len(extracted.products) :
          IsTextileText(ConstructionText(extracted.products[k]))
             => Contains(<<"t","e","x","t","i","l","e">>, extracted.products[k].construction)

\* the designation tokens that both suppliers use
DesignationTokens == {<<"1","S","N">>, <<"2","S","N">>, <<"1","S","C">>, <<"2","S","C">>, <<"4","S","P">>, <<"4","S","H">>,
                      <<"1","T","E">>, <<"2","T","E">>, <<"3","T","E">>}

\* C30 (as claimed): a BalflexParser product whose model is one of the
\* designation tokens 1SN, 2SN, 1SC, 2SC, 4SP, 4SH, 1TE, 2TE, 3TE has the
\* construction that HeizmannScraper._determine_construction gives a
\* record of that designation.
C30_CrossSupplierConstruction ==
    BalflexParsed =>
       \A k \in 1..Len(extracted.products) :
          extracted.products[k].model \in DesignationTokens
             => extracted.products[k].construction
                   = heizmann_determine_construction(extracted.products[k].model, <<>>)


\* an enrichment step has processed its product
Enriched(step) == script = step /\ enriched.done

\* the vocabularies of the normalized fields; the family tags are the
\* literals that the two standard functions return
AngleVocabulary == {<<"9","0","°">>, <<"4","5","°">>, <<"S","t","r","a","i","g","h","t">>}
SeriesVocabulary == {<<"L">>, <<"S">>}
StandardTags == {<<"J","I","S">>, <<"B","S","P">>, <<"N","P","T">>, <<"J","I","C">>, <<"O","R","F","S">>, <<"S","A","E">>, <<"I","S","O">>, <<"D","I","N">>,
                 <<"K","O","M","A","T","S","U">>, <<"C","A","T","E","R","P","I","L","L","A","R">>, <<"I","S","O"," ","8","4","3","4","-","1">>, <<"S","A","E"," ","J","5","1","8">>}

\* the step stored the field: it wrote the field's source beside it
StoredSeries == "series_source" \in enriched.product.keys
StoredStandard ==
    /\ "standard_source" \in enriched.product.keys
    /\ enriched.product.standard_source \in {"product_type", "category"}

\* C25 (as claimed): the angle that add_angle_information stores is None
\* or one of 90°, 45°, Straight; the series that add_series_from_lookup
\* stores is L or S; the standard that process_balflex_standards stores is
\* one of the fixed family tags.
C25_ClosedVocabularies ==
    /\ Enriched("add_angle_information")
          => enriched.product.angle \in AngleVocabulary \cup {<<>>}
    /\ (Enriched("add_series_from_lookup") /\ StoredSeries)
          => enriched.product.series \in SeriesVocabulary
    /\ (Enriched("process_balflex_standards_IMPROVED") /\ StoredStandard)
          => enriched.product.standard \in StandardTags

====
